---- MODULE Spec2Model ----
(***************************************************************************)
(* tinyjs: source text -> Lexer -> tokens -> Parser -> AST -> Optimizer -> *)
(* AST' -> Interpreter.  The pipeline is a state machine over the          *)
(* variables below; the lexer, the parser and the optimizer are pure       *)
(* functions (operators), the interpreter is a small-step machine whose    *)
(* continuation stack stands for the Rust call stack of the recursive      *)
(* do_statement / do_expression.                                           *)
(*                                                                         *)
(* Numbers (f64 in the source) are modelled on the integers; a quotient    *)
(* or remainder that is no integer is kept as the symbolic <<l, op, r>>.   *)
(***************************************************************************)
EXTENDS Integers, Sequences, FiniteSets, TLC

VARIABLES
    src,      \* the source text, a sequence of characters
    lexer,    \* Lexer.pos and the Vec<Token> that Lexer::lex is building
    parser,   \* Parser.pos and the statements that Parser::parse is building
    ast,      \* AST.statements, after parsing / optimizing
    phase,    \* position in main's pipeline
    nopt,     \* how many times Optimizer::optimize has been applied to ast
    m,        \* the Interpreter (scope, heap of Rc arrays, stdout, call stack)
    mref      \* a second Interpreter, evaluating the unoptimized AST

vars == <<src, lexer, parser, ast, phase, nopt, m, mref>>

(***************************************************************************)
(* Bounds of the model.                                                    *)
(***************************************************************************)
\* Deepest scope stack explored; deeper recursion overflows the Rust stack.
MaxScopeDepth == 16
\* Number of printed lines after which a run is cut off.
MaxOut == 4
\* How many times the optimizer is applied to one AST.
MaxOptRuns == 2

(***************************************************************************)
(* Literal (parser/ast.rs): the runtime values.                            *)
(***************************************************************************)
LitNumber(n) == [t |-> "Number", n |-> n]
LitString(s) == [t |-> "String", s |-> s]
LitNull == [t |-> "Null"]
LitBoolean(b) == [t |-> "Boolean", b |-> b]
LitUndefined == [t |-> "Undefined"]
\* Rc<RefCell<Vec<..>>>: the value is a reference into the heap of arrays.
LitArray(r) == [t |-> "Array", ref |-> r]
\* Vec<(String, Box<Literal>)>: an ordered sequence of <<key, value>>.
LitObject(props) == [t |-> "Object", props |-> props]
LitFunction(args, body) == [t |-> "Function", args |-> args, body |-> body]
\* NativeFn: recv is the captured receiver of a bound method (<<>> if none),
\* id the identity of the Rc the closure lives in (0 for the global ones).
LitNativeFunction(name, recv, id) ==
    [t |-> "NativeFunction", name |-> name, recv |-> recv, id |-> id]

\* Literal::truthy; arrays are looked up in the heap.
truthy(heap, v) ==
    CASE v.t = "Number" -> v.n # 0
      [] v.t = "String" -> v.s # ""
      [] v.t = "Null" -> FALSE
      [] v.t = "Boolean" -> v.b
      [] v.t = "Undefined" -> FALSE
      [] v.t = "Array" -> Len(heap[v.ref]) # 0
      [] v.t = "Object" -> Len(v.props) # 0
      [] v.t = "Function" -> TRUE
      [] v.t = "NativeFunction" -> TRUE

\* #[derive(PartialEq)] on Literal: structural, arrays compared by content,
\* native functions by the identity of their Rc.
RECURSIVE LitEq(_, _, _), LitSeqEq(_, _, _), PropsEq(_, _, _)
LitEq(heap, l, r) ==
    IF l.t # r.t THEN FALSE
    ELSE CASE l.t = "Number" -> l.n = r.n
           [] l.t = "String" -> l.s = r.s
           [] l.t = "Boolean" -> l.b = r.b
           [] l.t = "Array" -> LitSeqEq(heap, heap[l.ref], heap[r.ref])
           [] l.t = "Object" -> PropsEq(heap, l.props, r.props)
           [] l.t = "Function" -> l.args = r.args /\ l.body = r.body
           [] l.t = "NativeFunction" -> l.name = r.name /\ l.id = r.id
           [] OTHER -> TRUE
LitSeqEq(heap, a, b) ==
    IF Len(a) # Len(b) THEN FALSE
    ELSE IF Len(a) = 0 THEN TRUE
    ELSE LitEq(heap, a[1], b[1]) /\ LitSeqEq(heap, Tail(a), Tail(b))
PropsEq(heap, a, b) ==
    IF Len(a) # Len(b) THEN FALSE
    ELSE IF Len(a) = 0 THEN TRUE
    ELSE /\ a[1][1] = b[1][1]
         /\ LitEq(heap, a[1][2], b[1][2])
         /\ PropsEq(heap, Tail(a), Tail(b))

(***************************************************************************)
(* Expression and Statement (parser/ast.rs).  An Option is a sequence of   *)
(* length 0 or 1.                                                          *)
(***************************************************************************)
ExprLiteral(l) == [e |-> "Literal", lit |-> l]
ExprIdentifier(name) == [e |-> "Identifier", name |-> name]
ExprObject(properties) == [e |-> "Object", properties |-> properties]
ExprArray(elements) == [e |-> "Array", elements |-> elements]
ExprBinaryOp(left, op, right) ==
    [e |-> "BinaryOp", left |-> left, op |-> op, right |-> right]
ExprUnaryOp(op, expr) == [e |-> "UnaryOp", op |-> op, expr |-> expr]
ExprFunctionCall(callee, args) ==
    [e |-> "FunctionCall", callee |-> callee, args |-> args]
ExprAssignment(target, value) ==
    [e |-> "Assignment", target |-> target, value |-> value]
ExprIndex(target, index) == [e |-> "Index", target |-> target, index |-> index]
ExprProperty(target, name) ==
    [e |-> "Property", target |-> target, name |-> name]
ExprIncrement(target) == [e |-> "Increment", target |-> target]
ExprDecrement(target) == [e |-> "Decrement", target |-> target]

StmtExpression(expr) == [s |-> "Expression", expr |-> expr]
StmtReturn(expr) == [s |-> "Return", expr |-> expr]
StmtContinue == [s |-> "Continue"]
StmtBreak == [s |-> "Break"]
StmtIf(condition, consequence, alternative) ==
    [s |-> "If", condition |-> condition, consequence |-> consequence,
     alternative |-> alternative]
StmtWhile(condition, body) ==
    [s |-> "While", condition |-> condition, body |-> body]
StmtFor(init, condition, update, body) ==
    [s |-> "For", init |-> init, condition |-> condition, update |-> update,
     body |-> body]
StmtFunction(name, args, body) ==
    [s |-> "Function", name |-> name, args |-> args, body |-> body]
StmtScope(statements) == [s |-> "Scope", statements |-> statements]
StmtLet(name, value) == [s |-> "Let", name |-> name, value |-> value]

(***************************************************************************)
(* Scope (runtime/scope.rs): a Vec of HashMap frames, innermost last.      *)
(***************************************************************************)
EmptyFrame == [x \in {} |-> LitUndefined]
FrameInsert(f, key, value) ==
    [x \in (DOMAIN f) \cup {key} |-> IF x = key THEN value ELSE f[x]]

ScopeNew == <<EmptyFrame>>
ScopeEnter(scopes) == Append(scopes, EmptyFrame)
ScopeExit(scopes) ==
    IF Len(scopes) = 0 THEN scopes ELSE SubSeq(scopes, 1, Len(scopes) - 1)
\* get: Some(..) iff some frame has the name; the innermost such frame wins.
ScopeHas(scopes, name) == \E i \in 1..Len(scopes) : name \in DOMAIN scopes[i]
ScopeGet(scopes, name) ==
    LET i == CHOOSE j \in 1..Len(scopes) :
                 /\ name \in DOMAIN scopes[j]
                 /\ \A h \in (j + 1)..Len(scopes) : name \notin DOMAIN scopes[h]
    IN  scopes[i][name]
\* set that updates the innermost frame holding the name, and declares in
\* the innermost frame only a name no frame holds.
ScopeSetOuter(scopes, name, value) ==
    IF ScopeHas(scopes, name)
    THEN LET i == CHOOSE j \in 1..Len(scopes) :
                      /\ name \in DOMAIN scopes[j]
                      /\ \A h \in (j + 1)..Len(scopes) :
                             name \notin DOMAIN scopes[h]
         IN  [scopes EXCEPT ![i] = FrameInsert(@, name, value)]
    ELSE [scopes EXCEPT ![Len(scopes)] = FrameInsert(@, name, value)]
\* set: always the innermost frame.
ScopeSet(scopes, name, value) ==
    [scopes EXCEPT ![Len(scopes)] = FrameInsert(@, name, value)]

(***************************************************************************)
(* f64 arithmetic on the modelled (integer) numbers.                       *)
(***************************************************************************)
Abs(n) == IF n < 0 THEN -n ELSE n
\* l % r of f64 (fmod): the remainder has the sign of the dividend; a zero
\* divisor (NaN) is left symbolic.
FloatRem(l, r) ==
    IF r = 0 THEN <<l, "%", r>>
    ELSE IF l < 0 THEN -(Abs(l) % Abs(r)) ELSE Abs(l) % Abs(r)
\* l / r of f64: the quotient when it is an integer, left symbolic otherwise.
FloatDiv(l, r) ==
    IF r = 0 \/ FloatRem(l, r) # 0 THEN <<l, "/", r>>
    ELSE IF (l < 0) = (r < 0) THEN Abs(l) \div Abs(r)
    ELSE -(Abs(l) \div Abs(r))
\* `n as usize`: a saturating cast, negative numbers become 0.
AsUsize(n) == IF n < 0 THEN 0 ELSE n
\* f64::to_string of an integral value.
NumberToString(n) == ToString(n)

(***************************************************************************)
(* The interpreter's state.  k is the stack of pending work, top first: a  *)
(* frame is either an expression or a statement still to be evaluated, or  *)
(* the place in do_expression / do_statement / run where a recursive call  *)
(* returns to.  val is the Literal the last do_expression returned, sig    *)
(* the Option<Literal> the last do_statement returned.                     *)
(***************************************************************************)
Eval(e) == [k |-> "expr", e |-> e]
Exec(s) == [k |-> "stmt", s |-> s]

Panic(mm, msg) == [mm EXCEPT !.status = "panic", !.err = msg]
Value(mm, v, rest) == [mm EXCEPT !.val = v, !.k = rest]
Signal(mm, sig, rest) == [mm EXCEPT !.sig = sig, !.k = rest]
Goto(mm, frames) == [mm EXCEPT !.k = frames]

\* Scope::enter, on a stack that is not yet MaxScopeDepth deep.
CanEnter(mm) == Len(mm.scopes) < MaxScopeDepth
Overflow(mm) == [mm EXCEPT !.status = "overflow"]

(***************************************************************************)
(* Builtins (runtime/builtins.rs).                                         *)
(***************************************************************************)
Native(name) == LitNativeFunction(name, <<>>, 0)

\* Builtins::new / Builtins::load: the global objects.
GlobalFrame ==
    [x \in {"console", "intrinsics", "Object", "Math"} |->
        CASE x = "console" -> LitObject(<< <<"log", Native("console.log")>> >>)
          [] x = "intrinsics" ->
                LitObject(<< <<"dump", Native("intrinsics.dump")>>,
                             <<"typeof", Native("intrinsics.typeof")>> >>)
          [] x = "Object" -> LitObject(<< <<"keys", Native("Object.keys")>> >>)
          [] x = "Math" ->
                LitObject(<< <<"sqrt", Native("Math.sqrt")>>,
                             <<"max", Native("Math.max")>> >>)]

\* The match of console_log: the printed text of a value.
Stringify(v) ==
    CASE v.t = "String" -> v.s
      [] v.t = "Number" -> NumberToString(v.n)
      [] v.t = "Boolean" -> IF v.b THEN "true" ELSE "false"
      [] v.t = "Null" -> "null"
      [] v.t = "Undefined" -> "undefined"
      [] v.t = "Object" -> "[object]"
      [] v.t = "Array" -> "[array]"
      [] v.t = "Function" -> "[function]"
      [] v.t = "NativeFunction" -> "[native function]"

console_log(mm, args, rest) ==
    IF Len(args) # 1 THEN Panic(mm, "console.log takes exactly one argument")
    ELSE IF Len(mm.out) >= MaxOut THEN [mm EXCEPT !.status = "cutoff"]
    ELSE [mm EXCEPT !.out = Append(@, Stringify(args[1])),
                    !.val = LitUndefined, !.k = rest]

intrinsics_typeof(mm, args, rest) ==
    IF Len(args) # 1 THEN Panic(mm, "typeof takes exactly one argument")
    ELSE Value(mm, LitString(
            CASE args[1].t = "String" -> "string"
              [] args[1].t = "Number" -> "number"
              [] args[1].t = "Boolean" -> "boolean"
              [] args[1].t = "Null" -> "null"
              [] args[1].t = "Undefined" -> "undefined"
              [] args[1].t = "Object" -> "object"
              [] args[1].t = "Array" -> "array"
              [] args[1].t = "Function" -> "function"
              [] args[1].t = "NativeFunction" -> "native function"), rest)

array_length(mm, arr, args, rest) ==
    Value(mm, LitNumber(Len(mm.heap[arr.ref])), rest)

array_push(mm, arr, args, rest) ==
    IF Len(args) # 1 THEN Panic(mm, "array.push takes exactly one argument")
    ELSE [mm EXCEPT !.heap[arr.ref] = Append(@, args[1]),
                    !.val = LitNumber(Len(mm.heap[arr.ref]) + 1),
                    !.k = rest]

array_pop(mm, arr, args, rest) ==
    LET a == mm.heap[arr.ref]
    IN  IF Len(args) # 1
        THEN Panic(mm, "array.push takes exactly one argument")
        ELSE IF Len(a) = 0 THEN Panic(mm, "Array.pop called on empty array.")
        ELSE [mm EXCEPT !.heap[arr.ref] = SubSeq(a, 1, Len(a) - 1),
                        !.val = a[Len(a)], !.k = rest]

RECURSIVE JoinStrings(_, _)
JoinStrings(items, delim) ==
    IF Len(items) = 0 THEN ""
    ELSE IF Len(items) = 1 THEN items[1].s
    ELSE items[1].s \o delim \o JoinStrings(Tail(items), delim)

array_join(mm, arr, args, rest) ==
    LET a == mm.heap[arr.ref]
    IN  IF Len(args) > 1 THEN Panic(mm, "array.join takes at most one argument")
        ELSE IF Len(args) = 1 /\ args[1].t # "String"
        THEN Panic(mm, "array.join expects a string as the delimiter")
        ELSE IF \E i \in 1..Len(a) : a[i].t # "String"
        THEN Panic(mm, "array.join expects all elements to be strings")
        ELSE Value(mm, LitString(JoinStrings(a,
                 IF Len(args) = 0 THEN "," ELSE args[1].s)), rest)

array_reverse(mm, arr, args, rest) ==
    LET a == mm.heap[arr.ref]
    IN  [mm EXCEPT !.heap[arr.ref] = [i \in 1..Len(a) |-> a[Len(a) + 1 - i]],
                   !.val = arr, !.k = rest]

ArrayFuncs == {"length", "push", "pop", "join", "reverse"}
StringFuncs == {"split"}

\* Builtins::array_builtin: a fresh closure capturing the receiver.
array_builtin(mm, arr, name, rest) ==
    IF name \notin ArrayFuncs THEN Panic(mm, "Array." \o name \o " not found")
    ELSE [mm EXCEPT !.val = LitNativeFunction("Array." \o name, <<arr>>, mm.nfn),
                    !.nfn = @ + 1, !.k = rest]

\* Builtins::string_builtin.
string_builtin(mm, str, name, rest) ==
    IF name \notin StringFuncs THEN Panic(mm, "String." \o name \o " not found")
    ELSE [mm EXCEPT !.val = LitNativeFunction("String." \o name, <<str>>, mm.nfn),
                    !.nfn = @ + 1, !.k = rest]

\* *(f.func)(args): the host callback behind a NativeFunction.  The callbacks
\* the model does not cover (intrinsics.dump, Object.keys, Math.*, split) end
\* the run with status "unmodelled".
CallNative(mm, f, args, rest) ==
    CASE f.name = "console.log" -> console_log(mm, args, rest)
      [] f.name = "intrinsics.typeof" -> intrinsics_typeof(mm, args, rest)
      [] f.name = "Array.length" -> array_length(mm, f.recv[1], args, rest)
      [] f.name = "Array.push" -> array_push(mm, f.recv[1], args, rest)
      [] f.name = "Array.pop" -> array_pop(mm, f.recv[1], args, rest)
      [] f.name = "Array.join" -> array_join(mm, f.recv[1], args, rest)
      [] f.name = "Array.reverse" -> array_reverse(mm, f.recv[1], args, rest)
      [] OTHER -> [mm EXCEPT !.status = "unmodelled"]

(***************************************************************************)
(* Interpreter::do_expression (runtime/interpreter.rs).                    *)
(***************************************************************************)
ArithmeticOps == {"Sub", "Mul", "Div", "Mod"}
ComparisonOps ==
    {"GreaterThan", "GreaterThanOrEqual", "LessThan", "LessThanOrEqual"}

\* BinaryOperator::Add.
ApplyAdd(mm, l, r, rest) ==
    CASE l.t = "Number" /\ r.t = "Number" ->
            Value(mm, LitNumber(l.n + r.n), rest)
      [] l.t = "String" /\ r.t = "String" ->
            Value(mm, LitString(l.s \o r.s), rest)
      [] l.t = "String" /\ r.t = "Number" ->
            Value(mm, LitString(l.s \o NumberToString(r.n)), rest)
      [] l.t = "Number" /\ r.t = "String" ->
            Value(mm, LitString(NumberToString(l.n) \o r.s), rest)
      [] OTHER -> Panic(mm, "Unsupported operands for Add")

\* The operators that take two numbers.
ApplyNumeric(mm, op, l, r, rest) ==
    IF l.t # "Number" \/ r.t # "Number" THEN Panic(mm, "Expected number")
    ELSE CASE op = "Sub" -> Value(mm, LitNumber(l.n - r.n), rest)
           [] op = "Mul" -> Value(mm, LitNumber(l.n * r.n), rest)
           [] op = "Div" -> Value(mm, LitNumber(FloatDiv(l.n, r.n)), rest)
           [] op = "Mod" -> Value(mm, LitNumber(FloatRem(l.n, r.n)), rest)
           [] op = "GreaterThan" -> Value(mm, LitBoolean(l.n > r.n), rest)
           [] op = "GreaterThanOrEqual" ->
                Value(mm, LitBoolean(l.n >= r.n), rest)
           [] op = "LessThan" -> Value(mm, LitBoolean(l.n < r.n), rest)
           [] op = "LessThanOrEqual" ->
                Value(mm, LitBoolean(l.n <= r.n), rest)

\* The match on op, once both operands are values.
ApplyBinary(mm, op, l, r, rest) ==
    CASE op = "Add" -> ApplyAdd(mm, l, r, rest)
      [] op \in ArithmeticOps \cup ComparisonOps ->
            ApplyNumeric(mm, op, l, r, rest)
      [] op = "Equal" -> Value(mm, LitBoolean(LitEq(mm.heap, l, r)), rest)
      [] op = "NotEqual" -> Value(mm, LitBoolean(~LitEq(mm.heap, l, r)), rest)
      [] op = "BinaryOr" ->
            Value(mm, LitBoolean(truthy(mm.heap, l) \/ truthy(mm.heap, r)), rest)
      [] op = "BinaryAnd" ->
            Value(mm, LitBoolean(truthy(mm.heap, l) /\ truthy(mm.heap, r)), rest)
      \* PlusEqual .. DivEqual: the parser builds them, no arm evaluates them
      [] OTHER -> Panic(mm, "Unsupported operator")

\* Evaluate the next of a list of expressions left to right (array elements,
\* object values, native call arguments), or finish with frame `done`.
NextOf(mm, pending, frame, rest) ==
    Goto(mm, <<Eval(Head(pending)), [frame EXCEPT !.pending = Tail(pending)]>>
             \o rest)

\* Rc::new(RefCell::new(elements)): a fresh array in the heap.
NewArray(mm, elems, rest) ==
    [mm EXCEPT !.heap = Append(@, elems),
               !.val = LitArray(Len(mm.heap) + 1), !.k = rest]

\* The first step of an Assignment: the match on the target's shape.
DoAssignment(mm, e, rest) ==
    CASE e.target.e = "Identifier" ->
            Goto(mm, <<Eval(e.value),
                       [k |-> "AssignIdentifier", name |-> e.target.name]>>
                     \o rest)
      [] e.target.e = "Index" ->
            IF e.target.target.e = "Identifier"
            THEN Goto(mm, <<Eval(e.value),
                            [k |-> "AssignIndexValue",
                             name |-> e.target.target.name,
                             index |-> e.target.index]>> \o rest)
            ELSE Panic(mm, "Expected identifier")
      [] e.target.e = "Property" ->
            IF e.target.target.e = "Identifier"
            THEN Goto(mm, <<Eval(e.value),
                            [k |-> "AssignProperty",
                             obj_name |-> e.target.target.name,
                             name |-> e.target.name]>> \o rest)
            ELSE Panic(mm, "Expected identifier")
      [] OTHER -> Panic(mm, "Expected identifier")

\* The first step of do_expression(e): a leaf yields its value, anything else
\* recurses into its first sub-expression.
DoExpression(mm, e, rest) ==
    CASE e.e = "Identifier" ->
            IF ScopeHas(mm.scopes, e.name)
            THEN Value(mm, ScopeGet(mm.scopes, e.name), rest)
            ELSE Panic(mm, "Unknown identifier '" \o e.name \o "'")
      [] e.e = "Literal" -> Value(mm, e.lit, rest)
      [] e.e = "BinaryOp" ->
            Goto(mm, <<Eval(e.left),
                       [k |-> "BinaryRight", op |-> e.op, right |-> e.right]>>
                     \o rest)
      [] e.e = "Array" ->
            IF Len(e.elements) = 0 THEN NewArray(mm, <<>>, rest)
            ELSE NextOf(mm, e.elements,
                        [k |-> "ArrayElement", pending |-> <<>>, acc |-> <<>>],
                        rest)
      [] e.e = "Assignment" -> DoAssignment(mm, e, rest)
      [] e.e = "FunctionCall" ->
            Goto(mm, <<Eval(e.callee), [k |-> "CallCallee", args |-> e.args]>>
                     \o rest)
      [] e.e = "Index" ->
            Goto(mm, <<Eval(e.index), [k |-> "IndexIndex", target |-> e.target]>>
                     \o rest)
      [] e.e = "Object" ->
            IF Len(e.properties) = 0 THEN Value(mm, LitObject(<<>>), rest)
            ELSE Goto(mm, <<Eval(e.properties[1][2]),
                            [k |-> "ObjectProperty",
                             name |-> e.properties[1][1],
                             pending |-> Tail(e.properties), acc |-> <<>>]>>
                          \o rest)
      [] e.e = "UnaryOp" ->
            Goto(mm, <<Eval(e.expr), [k |-> "UnaryOperand", op |-> e.op]>>
                     \o rest)
      [] e.e = "Property" ->
            Goto(mm, <<Eval(e.target),
                       [k |-> "PropertyTarget", name |-> e.name]>> \o rest)
      \* Increment / Decrement: built by the parser, no arm evaluates them
      [] OTHER -> Panic(mm, "Unsupported expression")

\* Assignment to name[index], once value and index are evaluated.
AssignIndex(mm, f, index, rest) ==
    IF index.t # "Number" THEN Panic(mm, "Expected number")
    ELSE LET i == AsUsize(index.n)
             a == mm.heap[f.arr.ref]
         IN  IF i >= Len(a) THEN Panic(mm, "index out of bounds")
             ELSE [mm EXCEPT !.heap[f.arr.ref][i + 1] = f.res,
                             !.scopes = ScopeSet(@, f.name, f.arr),
                             !.val = f.arr, !.k = rest]

\* An assignment through a shared object: every binding that holds the
\* object of obj_name sees the property written.
AssignPropertyShared(mm, f, res, rest) ==
    IF ~ScopeHas(mm.scopes, f.obj_name)
    THEN Panic(mm, "Unknown identifier '" \o f.obj_name \o "'")
    ELSE LET obj == ScopeGet(mm.scopes, f.obj_name)
         IN  IF obj.t # "Object" THEN Panic(mm, "Expected object")
             ELSE LET exists == \E i \in 1..Len(obj.props) :
                                    obj.props[i][1] = f.name
                      i == CHOOSE j \in 1..(Len(obj.props) + 1) :
                              /\ j <= Len(obj.props) => obj.props[j][1] = f.name
                              /\ \A h \in 1..(j - 1) : obj.props[h][1] # f.name
                      new == IF exists
                             THEN LitObject([obj.props EXCEPT
                                                ![i] = <<f.name, res>>])
                             ELSE LitObject(Append(obj.props, <<f.name, res>>))
                      shared == [j \in 1..Len(mm.scopes) |->
                                    [n \in DOMAIN mm.scopes[j] |->
                                        IF mm.scopes[j][n] = obj THEN new
                                        ELSE mm.scopes[j][n]]]
                  IN  [mm EXCEPT !.scopes = ScopeSet(shared, f.obj_name, new),
                                 !.val = IF exists THEN new ELSE res,
                                 !.k = rest]

\* An assignment that pushes the property without looking for the key.
AssignPropertyAppend(mm, f, res, rest) ==
    IF ~ScopeHas(mm.scopes, f.obj_name)
    THEN Panic(mm, "Unknown identifier '" \o f.obj_name \o "'")
    ELSE LET obj == ScopeGet(mm.scopes, f.obj_name)
         IN  IF obj.t # "Object" THEN Panic(mm, "Expected object")
             ELSE LET new == LitObject(Append(obj.props, <<f.name, res>>))
                  IN  [mm EXCEPT !.scopes = ScopeSet(@, f.obj_name, new),
                                 !.val = res, !.k = rest]

\* Assignment to obj_name.name, once the value is evaluated.
AssignProperty(mm, f, res, rest) ==
    IF ~ScopeHas(mm.scopes, f.obj_name)
    THEN Panic(mm, "Unknown identifier '" \o f.obj_name \o "'")
    ELSE LET obj == ScopeGet(mm.scopes, f.obj_name)
         IN  IF obj.t # "Object" THEN Panic(mm, "Expected object")
             ELSE IF \E i \in 1..Len(obj.props) : obj.props[i][1] = f.name
             THEN LET i == CHOOSE j \in 1..Len(obj.props) :
                              /\ obj.props[j][1] = f.name
                              /\ \A h \in 1..(j - 1) : obj.props[h][1] # f.name
                      new == LitObject([obj.props EXCEPT ![i] = <<f.name, res>>])
                  IN  [mm EXCEPT !.scopes = ScopeSet(@, f.obj_name, new),
                                 !.val = new, !.k = rest]
             ELSE LET new == LitObject(Append(obj.props, <<f.name, res>>))
                  IN  [mm EXCEPT !.scopes = ScopeSet(@, f.obj_name, new),
                                 !.val = res, !.k = rest]

\* Index read, once the index is evaluated.
ReadIndex(mm, f, index, rest) ==
    IF f.target.e # "Identifier" THEN Panic(mm, "Expected identifier")
    ELSE IF ~ScopeHas(mm.scopes, f.target.name)
    THEN Panic(mm, "Unknown identifier '" \o f.target.name \o "'")
    ELSE LET target == ScopeGet(mm.scopes, f.target.name)
         IN  IF index.t # "Number" THEN Panic(mm, "Expected number")
             ELSE IF target.t # "Array" THEN Panic(mm, "Expected array")
             ELSE IF AsUsize(index.n) >= Len(mm.heap[target.ref])
             THEN Panic(mm, "Index out of bounds")
             ELSE Value(mm, mm.heap[target.ref][AsUsize(index.n) + 1], rest)

\* Property read, once the target is evaluated.
ReadProperty(mm, f, target, rest) ==
    CASE target.t = "Object" ->
            IF \E i \in 1..Len(target.props) : target.props[i][1] = f.name
            THEN LET i == CHOOSE j \in 1..Len(target.props) :
                             /\ target.props[j][1] = f.name
                             /\ \A h \in 1..(j - 1) : target.props[h][1] # f.name
                 IN  Value(mm, target.props[i][2], rest)
            ELSE Value(mm, LitUndefined, rest)
      [] target.t = "Array" -> array_builtin(mm, target, f.name, rest)
      [] target.t = "String" -> string_builtin(mm, target, f.name, rest)
      \* Builtins has no number method: the hook finds nothing
      [] target.t = "Number" -> Panic(mm, "Number." \o f.name \o " not found")
      [] OTHER -> Panic(mm, "Expected object")

\* A call that enters the new scope before it compares the argument count.
CallFunctionEnterFirst(mm, f, func, rest) ==
    CASE func.t = "Function" ->
            IF ~CanEnter(mm) THEN Overflow(mm)
            ELSE IF Len(func.args) # Len(f.args)
            THEN Panic([mm EXCEPT !.scopes = ScopeEnter(@)],
                       "Expected " \o ToString(Len(func.args))
                       \o " arguments, got " \o ToString(Len(f.args)))
            ELSE IF Len(f.args) = 0
            THEN [mm EXCEPT !.scopes = ScopeEnter(@),
                            !.k = <<Exec(func.body), [k |-> "CallReturn"]>>
                                  \o rest]
            ELSE [mm EXCEPT !.scopes = ScopeEnter(@),
                            !.k = <<Eval(f.args[1]),
                                    [k |-> "CallBind", params |-> func.args,
                                     args |-> f.args, i |-> 1,
                                     body |-> func.body]>> \o rest]
      [] func.t = "NativeFunction" ->
            IF Len(f.args) = 0 THEN CallNative(mm, func, <<>>, rest)
            ELSE NextOf(mm, f.args,
                        [k |-> "NativeArgument", f |-> func, pending |-> <<>>,
                         acc |-> <<>>], rest)
      [] OTHER -> Panic(mm, "Expected function")

\* FunctionCall, once the callee is evaluated.
CallFunction(mm, f, func, rest) ==
    CASE func.t = "Function" ->
            IF Len(func.args) # Len(f.args)
            THEN Panic(mm, "Expected " \o ToString(Len(func.args))
                           \o " arguments, got " \o ToString(Len(f.args)))
            ELSE IF ~CanEnter(mm) THEN Overflow(mm)
            ELSE IF Len(f.args) = 0
            THEN [mm EXCEPT !.scopes = ScopeEnter(@),
                            !.k = <<Exec(func.body), [k |-> "CallReturn"]>>
                                  \o rest]
            ELSE [mm EXCEPT !.scopes = ScopeEnter(@),
                            !.k = <<Eval(f.args[1]),
                                    [k |-> "CallBind", params |-> func.args,
                                     args |-> f.args, i |-> 1,
                                     body |-> func.body]>> \o rest]
      [] func.t = "NativeFunction" ->
            IF Len(f.args) = 0 THEN CallNative(mm, func, <<>>, rest)
            ELSE NextOf(mm, f.args,
                        [k |-> "NativeArgument", f |-> func, pending |-> <<>>,
                         acc |-> <<>>], rest)
      [] OTHER -> Panic(mm, "Expected function")

\* A BinaryOp that skips the right operand of && and || when the left one
\* decides the result.
EvalRightShortCircuit(mm, f, rest) ==
    IF f.op = "BinaryAnd" /\ ~truthy(mm.heap, mm.val)
    THEN Value(mm, LitBoolean(FALSE), rest)
    ELSE IF f.op = "BinaryOr" /\ truthy(mm.heap, mm.val)
    THEN Value(mm, LitBoolean(TRUE), rest)
    ELSE Goto(mm, <<Eval(f.right),
                    [k |-> "BinaryApply", op |-> f.op, left |-> mm.val]>>
                  \o rest)
\* BinaryOp with the left operand in mm.val: the right operand is evaluated
\* next, whatever the operator.
EvalRight(mm, f, rest) ==
    Goto(mm, <<Eval(f.right),
               [k |-> "BinaryApply", op |-> f.op, left |-> mm.val]>> \o rest)

\* do_expression resumes at frame f with mm.val, the value of the
\* sub-expression it was waiting for.
ResumeExpression(mm, f, rest) ==
    CASE f.k = "BinaryRight" -> EvalRight(mm, f, rest)
      [] f.k = "BinaryApply" -> ApplyBinary(mm, f.op, f.left, mm.val, rest)
      [] f.k = "ArrayElement" ->
            IF Len(f.pending) = 0 THEN NewArray(mm, Append(f.acc, mm.val), rest)
            ELSE NextOf(mm, f.pending, [f EXCEPT !.acc = Append(@, mm.val)], rest)
      [] f.k = "ObjectProperty" ->
            LET acc == Append(f.acc, <<f.name, mm.val>>)
            IN  IF Len(f.pending) = 0 THEN Value(mm, LitObject(acc), rest)
                ELSE Goto(mm, <<Eval(f.pending[1][2]),
                                [k |-> "ObjectProperty",
                                 name |-> f.pending[1][1],
                                 pending |-> Tail(f.pending), acc |-> acc]>>
                              \o rest)
      [] f.k = "AssignIdentifier" ->
            [mm EXCEPT !.scopes = ScopeSet(@, f.name, mm.val), !.k = rest]
      [] f.k = "AssignIndexValue" ->
            IF ~ScopeHas(mm.scopes, f.name)
            THEN Panic(mm, "Unknown identifier '" \o f.name \o "'")
            ELSE IF ScopeGet(mm.scopes, f.name).t # "Array"
            THEN Panic(mm, "Expected array")
            ELSE Goto(mm, <<Eval(f.index),
                            [k |-> "AssignIndexIndex", name |-> f.name,
                             arr |-> ScopeGet(mm.scopes, f.name),
                             res |-> mm.val]>> \o rest)
      [] f.k = "AssignIndexIndex" -> AssignIndex(mm, f, mm.val, rest)
      [] f.k = "AssignProperty" -> AssignProperty(mm, f, mm.val, rest)
      [] f.k = "CallCallee" -> CallFunction(mm, f, mm.val, rest)
      [] f.k = "CallBind" ->
            IF f.i = Len(f.args)
            THEN [mm EXCEPT !.scopes = ScopeSet(@, f.params[f.i], mm.val),
                            !.k = <<Exec(f.body), [k |-> "CallReturn"]>> \o rest]
            ELSE [mm EXCEPT !.scopes = ScopeSet(@, f.params[f.i], mm.val),
                            !.k = <<Eval(f.args[f.i + 1]),
                                    [f EXCEPT !.i = @ + 1]>> \o rest]
      [] f.k = "CallReturn" ->
            [mm EXCEPT !.scopes = ScopeExit(@),
                       !.val = IF mm.sig = <<>> THEN LitUndefined ELSE mm.sig[1],
                       !.k = rest]
      [] f.k = "NativeArgument" ->
            IF Len(f.pending) = 0
            THEN CallNative(mm, f.f, Append(f.acc, mm.val), rest)
            ELSE NextOf(mm, f.pending, [f EXCEPT !.acc = Append(@, mm.val)], rest)
      [] f.k = "IndexIndex" -> ReadIndex(mm, f, mm.val, rest)
      [] f.k = "UnaryOperand" ->
            IF f.op = "Negate"
            THEN IF mm.val.t = "Number"
                 THEN Value(mm, LitNumber(-mm.val.n), rest)
                 ELSE Panic(mm, "Expected number")
            ELSE Value(mm, LitBoolean(~truthy(mm.heap, mm.val)), rest)
      [] f.k = "PropertyTarget" -> ReadProperty(mm, f, mm.val, rest)

(***************************************************************************)
(* Interpreter::do_statement.                                              *)
(***************************************************************************)
\* The head of the `loop` of a For: the condition, or the body if there is none.
ForLoopHead(mm, for, rest) ==
    IF Len(for.condition) = 1
    THEN Goto(mm, <<Eval(for.condition[1]), [k |-> "ForTest", for |-> for]>>
                  \o rest)
    ELSE Goto(mm, <<Exec(for.body), [k |-> "ForBody", for |-> for]>> \o rest)

\* The first step of do_statement(s).
DoStatement(mm, s, rest) ==
    CASE s.s = "For" ->
            IF ~CanEnter(mm) THEN Overflow(mm)
            ELSE IF Len(s.init) = 1
            THEN [mm EXCEPT !.scopes = ScopeEnter(@),
                            !.k = <<Exec(s.init[1]),
                                    [k |-> "ForInit", for |-> s]>> \o rest]
            ELSE ForLoopHead([mm EXCEPT !.scopes = ScopeEnter(@)], s, rest)
      [] s.s = "Scope" ->
            IF ~CanEnter(mm) THEN Overflow(mm)
            ELSE IF Len(s.statements) = 0
            \* enter and exit at once
            THEN Signal(mm, <<>>, rest)
            ELSE [mm EXCEPT !.scopes = ScopeEnter(@),
                            !.k = <<Exec(s.statements[1]),
                                    [k |-> "ScopeNext",
                                     pending |-> Tail(s.statements)]>> \o rest]
      [] s.s = "If" ->
            Goto(mm, <<Eval(s.condition),
                       [k |-> "IfTest", consequence |-> s.consequence,
                        alternative |-> s.alternative]>> \o rest)
      [] s.s = "Function" ->
            [mm EXCEPT !.scopes = ScopeSet(@, s.name, LitFunction(s.args, s.body)),
                       !.sig = <<>>, !.k = rest]
      [] s.s = "Expression" ->
            Goto(mm, <<Eval(s.expr), [k |-> "Discard"]>> \o rest)
      [] s.s = "Let" ->
            Goto(mm, <<Eval(s.value), [k |-> "LetBind", name |-> s.name]>>
                     \o rest)
      [] s.s = "Return" ->
            Goto(mm, <<Eval(s.expr), [k |-> "ReturnValue"]>> \o rest)
      [] s.s = "While" ->
            Goto(mm, <<Eval(s.condition), [k |-> "WhileTest", while |-> s]>>
                     \o rest)
      \* Continue / Break: no arm of do_statement consumes them
      [] OTHER -> Signal(mm, <<>>, rest)

\* A For that forgets its update: the loop goes round without evaluating it.
ForAfterBodyNoUpdate(mm, for, rest) == ForLoopHead(mm, for, rest)

\* A For after its body has run: the body's Option<Literal> is dropped, the
\* update (if any) is evaluated, and the loop goes round.
ForAfterBody(mm, for, rest) ==
    IF Len(for.update) = 1
    THEN Goto(mm, <<Eval(for.update[1]), [k |-> "ForUpdate", for |-> for]>>
                  \o rest)
    ELSE ForLoopHead(mm, for, rest)

\* A Scope whose early return forgets self.scope.exit().
ScopeAfterStatementKeepFrame(mm, pending, rest) ==
    IF mm.sig # <<>>
    THEN [mm EXCEPT !.k = rest]
    ELSE IF Len(pending) = 0
    THEN [mm EXCEPT !.scopes = ScopeExit(@), !.sig = <<>>, !.k = rest]
    ELSE Goto(mm, <<Exec(pending[1]),
                    [k |-> "ScopeNext", pending |-> Tail(pending)]>> \o rest)

\* A Scope after one of its statements has run: a Some(..) result exits the
\* frame and is returned at once; otherwise the next statement runs, or the
\* frame is exited after the last one.
ScopeAfterStatement(mm, pending, rest) ==
    IF mm.sig # <<>>
    THEN [mm EXCEPT !.scopes = ScopeExit(@), !.k = rest]
    ELSE IF Len(pending) = 0
    THEN [mm EXCEPT !.scopes = ScopeExit(@), !.sig = <<>>, !.k = rest]
    ELSE Goto(mm, <<Exec(pending[1]),
                    [k |-> "ScopeNext", pending |-> Tail(pending)]>> \o rest)

\* do_statement resumes at frame f: with mm.val after a sub-expression, with
\* mm.sig after a sub-statement.
ResumeStatement(mm, f, rest) ==
    CASE f.k = "ForInit" -> ForLoopHead(mm, f.for, rest)
      [] f.k = "ForTest" ->
            IF truthy(mm.heap, mm.val)
            THEN Goto(mm, <<Exec(f.for.body), [k |-> "ForBody", for |-> f.for]>>
                          \o rest)
            ELSE [mm EXCEPT !.scopes = ScopeExit(@), !.sig = <<>>, !.k = rest]
      [] f.k = "ForBody" -> ForAfterBody(mm, f.for, rest)
      [] f.k = "ForUpdate" -> ForLoopHead(mm, f.for, rest)
      [] f.k = "ScopeNext" -> ScopeAfterStatement(mm, f.pending, rest)
      [] f.k = "IfTest" ->
            IF truthy(mm.heap, mm.val)
            THEN Goto(mm, <<Exec(f.consequence), [k |-> "Discard"]>> \o rest)
            ELSE IF Len(f.alternative) = 1
            THEN Goto(mm, <<Exec(f.alternative[1]), [k |-> "Discard"]>> \o rest)
            ELSE Signal(mm, <<>>, rest)
      \* the result of the sub-evaluation is dropped, do_statement returns None
      [] f.k = "Discard" -> Signal(mm, <<>>, rest)
      [] f.k = "LetBind" ->
            [mm EXCEPT !.scopes = ScopeSet(@, f.name, mm.val),
                       !.sig = <<>>, !.k = rest]
      [] f.k = "ReturnValue" -> Signal(mm, <<mm.val>>, rest)
      [] f.k = "WhileTest" ->
            IF truthy(mm.heap, mm.val)
            THEN Goto(mm, <<Exec(f.while.body),
                            [k |-> "WhileBody", while |-> f.while]>> \o rest)
            ELSE Signal(mm, <<>>, rest)
      [] f.k = "WhileBody" ->
            \* the body's Option<Literal> is dropped
            Goto(mm, <<Eval(f.while.condition),
                       [k |-> "WhileTest", while |-> f.while]>> \o rest)

ExpressionFrames ==
    {"BinaryRight", "BinaryApply", "ArrayElement", "ObjectProperty",
     "AssignIdentifier", "AssignIndexValue", "AssignIndexIndex",
     "AssignProperty", "CallCallee", "CallBind", "CallReturn",
     "NativeArgument", "IndexIndex", "UnaryOperand", "PropertyTarget"}
StatementFrames ==
    {"ForInit", "ForTest", "ForBody", "ForUpdate", "ScopeNext", "IfTest",
     "Discard", "LetBind", "ReturnValue", "WhileTest", "WhileBody"}

(***************************************************************************)
(* Interpreter::new and Interpreter::run.                                  *)
(***************************************************************************)
\* An interpreter that has not been constructed yet.
NoInterpreter ==
    [scopes |-> <<>>, heap |-> <<>>, out |-> <<>>, k |-> <<>>,
     val |-> LitUndefined, sig |-> <<>>, status |-> "idle", err |-> "",
     nfn |-> 1]

\* Interpreter::new(ast), then the start of run(): the builtins are loaded
\* into the global frame and the top-level statements are pending.
NewInterpreter(statements) ==
    [scopes |-> <<GlobalFrame>>, heap |-> <<>>, out |-> <<>>,
     k |-> <<[k |-> "Run", pending |-> statements]>>,
     val |-> LitUndefined, sig |-> <<>>, status |-> "running", err |-> "",
     nfn |-> 1]

\* run's `for stmt in stmts`: the next top-level statement, its result dropped.
RunLoop(mm, f, rest) ==
    IF Len(f.pending) = 0 THEN [mm EXCEPT !.status = "done", !.k = <<>>]
    ELSE Goto(mm, <<Exec(f.pending[1]),
                    [k |-> "Run", pending |-> Tail(f.pending)]>> \o rest)

\* One step of the interpreter.
Step(mm) ==
    LET f == Head(mm.k)
        rest == Tail(mm.k)
    IN  CASE f.k = "expr" -> DoExpression(mm, f.e, rest)
          [] f.k = "stmt" -> DoStatement(mm, f.s, rest)
          [] f.k = "Run" -> RunLoop(mm, f, rest)
          [] f.k \in ExpressionFrames -> ResumeExpression(mm, f, rest)
          [] f.k \in StatementFrames -> ResumeStatement(mm, f, rest)

(***************************************************************************)
(* Optimizer (optim/optim.rs).  The &mut self of the passes is the record  *)
(* o = [constants, allow_new_constants]; a pass over a node returns the    *)
(* pair <<rewritten node, o afterwards>>.                                  *)
(***************************************************************************)
\* Optimizer::new.
NewOptimizer == [constants |-> <<EmptyFrame>>, allow_new_constants |-> TRUE]

\* A mark_constant that admits constants into a closed table.
mark_constant_open(o, name, value) ==
    [o EXCEPT !.constants[Len(o.constants)] = FrameInsert(@, name, value)]
mark_constant(o, name, value) ==
    IF ~o.allow_new_constants THEN o
    ELSE [o EXCEPT !.constants[Len(o.constants)] = FrameInsert(@, name, value)]

\* get_constant: Some(..) iff has_constant; the innermost frame wins.
has_constant(o, name) == ScopeHas(o.constants, name)
get_constant(o, name) == ScopeGet(o.constants, name)

remove_constant(o, name) ==
    IF ~has_constant(o, name) THEN o
    ELSE LET i == CHOOSE j \in 1..Len(o.constants) :
                     /\ name \in DOMAIN o.constants[j]
                     /\ \A h \in (j + 1)..Len(o.constants) :
                            name \notin DOMAIN o.constants[h]
             f == o.constants[i]
         IN  [o EXCEPT !.constants[i] = [x \in (DOMAIN f) \ {name} |-> f[x]]]

close_constants(o) == [o EXCEPT !.allow_new_constants = FALSE]

RECURSIVE propagate_expression(_, _), propagate_expressions(_, _),
          propagate_properties(_, _)
propagate_expression(o, expr) ==
    CASE expr.e = "Identifier" ->
            IF has_constant(o, expr.name)
            THEN <<ExprLiteral(get_constant(o, expr.name)), o>>
            ELSE <<expr, o>>
      [] expr.e = "Object" ->
            LET r == propagate_properties(o, expr.properties)
            IN  <<ExprObject(r[1]), r[2]>>
      [] expr.e = "Array" ->
            LET r == propagate_expressions(o, expr.elements)
            IN  <<ExprArray(r[1]), r[2]>>
      [] expr.e = "BinaryOp" ->
            LET l == propagate_expression(o, expr.left)
                r == propagate_expression(l[2], expr.right)
            IN  <<ExprBinaryOp(l[1], expr.op, r[1]), r[2]>>
      [] expr.e = "UnaryOp" ->
            LET r == propagate_expression(o, expr.expr)
            IN  <<ExprUnaryOp(expr.op, r[1]), r[2]>>
      [] expr.e = "Assignment" ->
            LET o1 == IF expr.target.e = "Identifier"
                      THEN remove_constant(o, expr.target.name)
                      ELSE o
                r == propagate_expression(o1, expr.value)
            IN  <<ExprAssignment(expr.target, r[1]), r[2]>>
      \* Literal, Increment, Decrement, FunctionCall, Index, Property
      [] OTHER -> <<expr, o>>
propagate_expressions(o, exprs) ==
    IF Len(exprs) = 0 THEN <<<<>>, o>>
    ELSE LET h == propagate_expression(o, Head(exprs))
             t == propagate_expressions(h[2], Tail(exprs))
         IN  <<<<h[1]>> \o t[1], t[2]>>
propagate_properties(o, props) ==
    IF Len(props) = 0 THEN <<<<>>, o>>
    ELSE LET h == propagate_expression(o, Head(props)[2])
             t == propagate_properties(h[2], Tail(props))
         IN  <<<< <<Head(props)[1], h[1]>> >> \o t[1], t[2]>>

\* An Option<Box<..>> is walked as the sequence of its 0 or 1 elements.
RECURSIVE propagate_statement(_, _), propagate_statements(_, _)
propagate_statement(o, stmt) ==
    CASE stmt.s = "Expression" ->
            LET r == propagate_expression(o, stmt.expr)
            IN  <<StmtExpression(r[1]), r[2]>>
      [] stmt.s = "Return" ->
            LET r == propagate_expression(o, stmt.expr)
            IN  <<StmtReturn(r[1]), r[2]>>
      [] stmt.s = "If" ->
            LET c == propagate_expression(o, stmt.condition)
                t == propagate_statement(c[2], stmt.consequence)
                a == propagate_statements(t[2], stmt.alternative)
            IN  <<StmtIf(c[1], t[1], a[1]), a[2]>>
      [] stmt.s = "While" ->
            LET c == propagate_expression(o, stmt.condition)
                b == propagate_statement(c[2], stmt.body)
            IN  <<StmtWhile(c[1], b[1]), b[2]>>
      [] stmt.s = "For" ->
            LET i == propagate_statements(o, stmt.init)
                c == propagate_expressions(i[2], stmt.condition)
                u == propagate_expressions(c[2], stmt.update)
                b == propagate_statement(u[2], stmt.body)
            IN  <<StmtFor(i[1], c[1], u[1], b[1]), b[2]>>
      [] stmt.s = "Function" ->
            LET b == propagate_statement(o, stmt.body)
            IN  <<StmtFunction(stmt.name, stmt.args, b[1]), b[2]>>
      [] stmt.s = "Scope" ->
            LET r == propagate_statements(
                         [o EXCEPT !.constants = ScopeEnter(@)], stmt.statements)
            IN  <<StmtScope(r[1]), [r[2] EXCEPT !.constants = ScopeExit(@)]>>
      [] stmt.s = "Let" ->
            LET r == propagate_expression(o, stmt.value)
            IN  <<StmtLet(stmt.name, r[1]),
                  IF r[1].e = "Literal"
                     /\ r[1].lit.t \in {"Number", "String", "Boolean"}
                  THEN mark_constant(r[2], stmt.name, r[1].lit)
                  ELSE r[2]>>
      \* Continue, Break
      [] OTHER -> <<stmt, o>>
propagate_statements(o, stmts) ==
    IF Len(stmts) = 0 THEN <<<<>>, o>>
    ELSE LET h == propagate_statement(o, Head(stmts))
             t == propagate_statements(h[2], Tail(stmts))
         IN  <<<<h[1]>> \o t[1], t[2]>>

\* constant_value_propagation.  The "pre-walk" of line 82 builds an iterator
\* (`.map(..)`) and drops it without consuming it: Rust iterators are lazy,
\* so propagate_statement is never called there and records nothing.  The
\* table is then closed and the only walk that runs is the rewriting one.
constant_value_propagation(o, statements) ==
    propagate_statements(close_constants(o), statements)

\* The arithmetic arms of fold_expression on two number literals.
FoldableOps == {"Add", "Sub", "Mul", "Div", "Mod"}
\* A folding whose Sub arm computes what its trace! message prints, l + r.
FoldNumbersSubAdds(l, op, r) ==
    CASE op = "Add" -> l + r
      [] op = "Sub" -> l + r
      [] op = "Mul" -> l * r
      [] op = "Div" -> FloatDiv(l, r)
      [] op = "Mod" -> FloatRem(l, r)

\* The literal a BinaryOp of two Number literals folds to.
FoldNumbers(l, op, r) ==
    CASE op = "Add" -> l + r
      [] op = "Sub" -> l - r
      [] op = "Mul" -> l * r
      [] op = "Div" -> FloatDiv(l, r)
      [] op = "Mod" -> FloatRem(l, r)

RECURSIVE fold_expression(_), fold_expressions(_), fold_properties(_)
fold_expression(expr) ==
    CASE expr.e = "Object" -> ExprObject(fold_properties(expr.properties))
      [] expr.e = "Array" -> ExprArray(fold_expressions(expr.elements))
      [] expr.e = "BinaryOp" ->
            IF /\ expr.left.e = "Literal" /\ expr.right.e = "Literal"
               /\ expr.left.lit.t = "Number" /\ expr.right.lit.t = "Number"
               /\ expr.op \in FoldableOps
            THEN ExprLiteral(LitNumber(
                     FoldNumbers(expr.left.lit.n, expr.op, expr.right.lit.n)))
            ELSE IF /\ expr.left.e = "Literal" /\ expr.right.e = "Literal"
                    /\ expr.left.lit.t = "String" /\ expr.right.lit.t = "String"
                    /\ expr.op = "Add"
            THEN ExprLiteral(LitString(expr.left.lit.s \o expr.right.lit.s))
            ELSE ExprBinaryOp(fold_expression(expr.left), expr.op,
                              fold_expression(expr.right))
      [] expr.e = "UnaryOp" ->
            IF /\ expr.op = "Negate" /\ expr.expr.e = "Literal"
               /\ expr.expr.lit.t = "Number"
            THEN ExprLiteral(LitNumber(-expr.expr.lit.n))
            ELSE IF /\ expr.op = "Not" /\ expr.expr.e = "Literal"
                    /\ expr.expr.lit.t = "Boolean"
            THEN ExprLiteral(LitBoolean(~expr.expr.lit.b))
            ELSE ExprUnaryOp(expr.op, fold_expression(expr.expr))
      [] expr.e = "FunctionCall" ->
            ExprFunctionCall(fold_expression(expr.callee),
                             fold_expressions(expr.args))
      [] expr.e = "Assignment" ->
            ExprAssignment(expr.target, fold_expression(expr.value))
      [] expr.e = "Index" -> ExprIndex(expr.target, fold_expression(expr.index))
      \* Literal, Identifier, Increment, Decrement, Property
      [] OTHER -> expr
fold_expressions(exprs) ==
    [i \in 1..Len(exprs) |-> fold_expression(exprs[i])]
fold_properties(props) ==
    [i \in 1..Len(props) |-> <<props[i][1], fold_expression(props[i][2])>>]

RECURSIVE fold_statement(_), fold_statements(_)
fold_statement(stmt) ==
    CASE stmt.s = "Expression" -> StmtExpression(fold_expression(stmt.expr))
      [] stmt.s = "Return" -> StmtReturn(fold_expression(stmt.expr))
      [] stmt.s = "If" ->
            StmtIf(fold_expression(stmt.condition),
                   fold_statement(stmt.consequence),
                   fold_statements(stmt.alternative))
      [] stmt.s = "While" ->
            StmtWhile(fold_expression(stmt.condition), fold_statement(stmt.body))
      [] stmt.s = "For" ->
            StmtFor(fold_statements(stmt.init), fold_expressions(stmt.condition),
                    fold_expressions(stmt.update), fold_statement(stmt.body))
      [] stmt.s = "Function" ->
            StmtFunction(stmt.name, stmt.args, fold_statement(stmt.body))
      [] stmt.s = "Scope" -> StmtScope(fold_statements(stmt.statements))
      [] stmt.s = "Let" -> StmtLet(stmt.name, fold_expression(stmt.value))
      \* Continue, Break
      [] OTHER -> stmt
fold_statements(stmts) == [i \in 1..Len(stmts) |-> fold_statement(stmts[i])]

constant_folding(statements) == fold_statements(statements)

\* tree_shaking / shake_statement: the identity.
tree_shaking(statements) == statements

\* Optimizer::new(ast).optimize(): propagate, fold, shake.
optimize(statements) ==
    tree_shaking(constant_folding(
        constant_value_propagation(NewOptimizer, statements)[1]))

(***************************************************************************)
(* Token (lexer/token.rs) and Lexer (lexer.rs).  A character is a string   *)
(* of length one; Lexer.pos counts the characters consumed.                *)
(***************************************************************************)
Tok(t) == [t |-> t]
TokIdentifier(name) == [t |-> "Identifier", name |-> name]
TokStringLiteral(s) == [t |-> "StringLiteral", s |-> s]
TokNumber(n) == [t |-> "Number", n |-> n]

LowerCase ==
    {"a", "b", "c", "d", "e", "f", "g", "h", "i", "j", "k", "l", "m", "n",
     "o", "p", "q", "r", "s", "t", "u", "v", "w", "x", "y", "z"}
UpperCase ==
    {"A", "B", "C", "D", "E", "F", "G", "H", "I", "J", "K", "L", "M", "N",
     "O", "P", "Q", "R", "S", "T", "U", "V", "W", "X", "Y", "Z"}
Digits == {"0", "1", "2", "3", "4", "5", "6", "7", "8", "9"}
DigitValue(c) ==
    CASE c = "0" -> 0 [] c = "1" -> 1 [] c = "2" -> 2 [] c = "3" -> 3
      [] c = "4" -> 4 [] c = "5" -> 5 [] c = "6" -> 6 [] c = "7" -> 7
      [] c = "8" -> 8 [] c = "9" -> 9

\* Lexer::peek_ahead: Some(c) as <<c>>, None as <<>>.
peek_ahead(source, pos, by) ==
    IF pos + by >= Len(source) THEN <<>> ELSE <<source[pos + by + 1]>>

\* The position where a run of characters of `class` starting at pos ends.
RECURSIVE RunEnd(_, _, _)
RunEnd(source, pos, class) ==
    IF pos < Len(source) /\ source[pos + 1] \in class
    THEN RunEnd(source, pos + 1, class)
    ELSE pos

\* The String built by pushing the characters source[from+1 .. to].
RECURSIVE Word(_, _, _)
Word(source, from, to) ==
    IF from >= to THEN "" ELSE source[from + 1] \o Word(source, from + 1, to)

\* str::parse::<f64> of a run of decimal digits.
RECURSIVE ParseDigits(_, _, _, _)
ParseDigits(source, from, to, acc) ==
    IF from >= to THEN acc
    ELSE ParseDigits(source, from + 1, to, acc * 10 + DigitValue(source[from + 1]))

\* keyword_map of lex_identifier.
Keywords ==
    {"let", "var", "if", "else", "while", "for", "do", "continue", "break",
     "return", "function", "true", "false"}
KeywordToken(word) ==
    CASE word = "let" -> Tok("Let") [] word = "var" -> Tok("Var")
      [] word = "if" -> Tok("If") [] word = "else" -> Tok("Else")
      [] word = "while" -> Tok("While") [] word = "for" -> Tok("For")
      [] word = "do" -> Tok("Do") [] word = "continue" -> Tok("Continue")
      [] word = "break" -> Tok("Break") [] word = "return" -> Tok("Return")
      [] word = "function" -> Tok("Function") [] word = "true" -> Tok("True")
      [] word = "false" -> Tok("False")

\* A step of the lexer yields [pos, tok, ok]: the position afterwards, the
\* token pushed (<<>> if none), and ok = FALSE if the lexer panicked.
Lexed(pos, tok) == [pos |-> pos, tok |-> tok, ok |-> TRUE]

lex_identifier(source, pos) ==
    LET end == RunEnd(source, pos, LowerCase \cup UpperCase \cup Digits
                                     \cup {"_", "$"})
        word == Word(source, pos, end)
    IN  Lexed(end, <<IF word \in Keywords THEN KeywordToken(word)
                     ELSE TokIdentifier(word)>>)

lex_numeric(source, pos) ==
    LET end == RunEnd(source, pos, Digits)
    IN  Lexed(end, <<TokNumber(ParseDigits(source, pos, end, 0))>>)

\* lex_literal: consume() past the end of an unterminated literal unwraps None.
lex_literal(source, pos) ==
    LET closing == {j \in (pos + 1)..(Len(source) - 1) : source[j + 1] = "\""}
    IN  IF closing = {}
        THEN [pos |-> Len(source), tok |-> <<>>, ok |-> FALSE]
        ELSE LET end == CHOOSE j \in closing : \A h \in closing : j <= h
             IN  Lexed(end + 1, <<TokStringLiteral(Word(source, pos + 1, end))>>)

\* An operator character that may be followed by '=': the arms of lex for
\* '*', '+', '-', '=', '!', '<', '>'.
WithEqual(source, pos, single, double) ==
    IF peek_ahead(source, pos + 1, 0) = <<"=">>
    THEN Lexed(pos + 2, <<Tok(double)>>)
    ELSE Lexed(pos + 1, <<Tok(single)>>)

\* An arm for '/' that consumes nothing when it meets a lone slash.
LexSlashStuck(source, pos) ==
    IF peek_ahead(source, pos + 1, 0) = <<"/">>
    THEN Lexed(RunEnd(source, pos + 1,
                      {source[j] : j \in 1..Len(source)} \ {"\n"}), <<>>)
    ELSE Lexed(pos, <<>>)

\* The arm of lex for '/': a line comment, SlashEqual (whose '=' is not
\* consumed) or Slash.
LexSlash(source, pos) ==
    IF peek_ahead(source, pos + 1, 0) = <<"/">>
    THEN Lexed(RunEnd(source, pos + 1,
                      {source[j] : j \in 1..Len(source)} \ {"\n"}), <<>>)
    ELSE IF peek_ahead(source, pos + 1, 0) = <<"=">>
    THEN Lexed(pos + 1, <<Tok("SlashEqual")>>)
    ELSE Lexed(pos + 1, <<Tok("Slash")>>)

Punctuation == {"(", ")", "{", "}", ";", ":", ",", ".", "[", "]"}
PunctuationToken(c) ==
    CASE c = "(" -> Tok("LeftParen") [] c = ")" -> Tok("RightParen")
      [] c = "{" -> Tok("LeftBrace") [] c = "}" -> Tok("RightBrace")
      [] c = ";" -> Tok("Semicolon") [] c = ":" -> Tok("Colon")
      [] c = "," -> Tok("Comma") [] c = "." -> Tok("Dot")
      [] c = "[" -> Tok("LeftBracket") [] c = "]" -> Tok("RightBracket")

\* One iteration of the `while let Some(c) = self.peek()` of Lexer::lex.
LexChar(source, pos) ==
    LET c == source[pos + 1]
    IN  CASE c \in LowerCase \cup UpperCase \cup {"_"} ->
                lex_identifier(source, pos)
          [] c \in Digits -> lex_numeric(source, pos)
          [] c = "\"" -> lex_literal(source, pos)
          [] c \in Punctuation -> Lexed(pos + 1, <<PunctuationToken(c)>>)
          [] c = "/" -> LexSlash(source, pos)
          [] c = "*" -> WithEqual(source, pos, "Star", "StarEqual")
          [] c = "+" -> WithEqual(source, pos, "Plus", "PlusEqual")
          [] c = "-" -> WithEqual(source, pos, "Minus", "MinusEqual")
          [] c = "=" -> WithEqual(source, pos, "Equal", "EqualEqual")
          [] c = "!" -> WithEqual(source, pos, "Bang", "BangEqual")
          [] c = "<" -> WithEqual(source, pos, "Less", "LessEqual")
          [] c = ">" -> WithEqual(source, pos, "Greater", "GreaterEqual")
          \* whitespace, and every other character, is consumed silently
          [] OTHER -> Lexed(pos + 1, <<>>)

(***************************************************************************)
(* Parser (parser/parser.rs).  The &mut self of the parsing methods is the *)
(* record p = [ok, pos, v]: Parser.pos (the number of tokens consumed),    *)
(* ok = FALSE once the parser has panicked, and v, the node the last       *)
(* method returned.  A method applied to a panicked parser does nothing.   *)
(***************************************************************************)
\* Parser::new.
\* p.far is one more than the greatest index of self.tokens read so far.
NewParser(pos) == [ok |-> TRUE, pos |-> pos, v |-> <<>>, far |-> pos]

\* A method returns v.
Yield(p, v) == IF p.ok THEN [p EXCEPT !.v = v] ELSE p
\* A method returns Some(p.v).
Some(p) == Yield(p, <<p.v>>)
\* panic!(..)
ParsePanic(p) == [p EXCEPT !.ok = FALSE, !.v = <<>>]

\* Parser::peek; self.tokens[..] past the end of the Vec is an index panic,
\* here a token that no arm of the parser accepts.
peek(toks, p) ==
    IF p.pos < Len(toks) THEN toks[p.pos + 1] ELSE Tok("<index out of bounds>")

\* Parser::done: self.tokens[self.pos] is read before the length is compared.
done(toks, p) == peek(toks, p) = Tok("EOF")

\* self.tokens[self.pos] has been read: a peek that moves no position.
look(p) ==
    IF p.ok /\ p.far <= p.pos THEN [p EXCEPT !.far = p.pos + 1] ELSE p

\* Parser::consume.
consume(p) == IF p.ok THEN [look(p) EXCEPT !.pos = @ + 1] ELSE p

\* An expect that consumes the next token whatever it is.
expectAny(toks, p, t) == consume(p)
\* Parser::expect.
expect(toks, p, t) ==
    IF peek(toks, p) = Tok(t) THEN consume(p) ELSE ParsePanic(look(p))

\* Parser::match_infix_operators: the arms of the match.
InfixTokens ==
    {"Plus", "Minus", "Star", "Slash", "Percent", "AmpAmp", "PipePipe",
     "EqualEqual", "BangEqual", "Greater", "GreaterEqual", "Less", "LessEqual",
     "PlusEqual", "MinusEqual", "StarEqual", "SlashEqual"}
InfixOperator(t) ==
    CASE t = "Plus" -> "Add" [] t = "Minus" -> "Sub" [] t = "Star" -> "Mul"
      [] t = "Slash" -> "Div" [] t = "Percent" -> "Mod"
      [] t = "AmpAmp" -> "BinaryAnd" [] t = "PipePipe" -> "BinaryOr"
      [] t = "EqualEqual" -> "Equal" [] t = "BangEqual" -> "NotEqual"
      [] t = "Greater" -> "GreaterThan"
      [] t = "GreaterEqual" -> "GreaterThanOrEqual"
      [] t = "Less" -> "LessThan" [] t = "LessEqual" -> "LessThanOrEqual"
      [] t = "PlusEqual" -> "PlusEqual" [] t = "MinusEqual" -> "MinusEqual"
      [] t = "StarEqual" -> "MulEqual" [] t = "SlashEqual" -> "DivEqual"

RECURSIVE statement(_, _), expression(_, _), Prefix(_, _), Postfix(_, _),
          Infix(_, _), ExpressionList(_, _, _, _), do_args(_, _),
          do_array(_, _), do_object(_, _), ObjectProperties(_, _, _),
          do_scope(_, _), ScopeStatements(_, _, _), do_if(_, _), do_let(_, _),
          do_while(_, _), do_for(_, _), do_function(_, _),
          FunctionParams(_, _, _)

\* The `loop` of do_args / do_array: expressions separated by commas up to
\* (and not including) the closing token.
ExpressionList(toks, p, close, acc) ==
    LET e == expression(toks, p)
    IN  IF ~e.ok THEN e
        ELSE IF peek(toks, e) = Tok(close) THEN Yield(e, Append(acc, e.v))
        ELSE ExpressionList(toks, expect(toks, e, "Comma"), close,
                            Append(acc, e.v))

do_args(toks, p) ==
    LET l == expect(toks, p, "LeftParen")
    IN  IF peek(toks, l) # Tok("RightParen")
        THEN ExpressionList(toks, l, "RightParen", <<>>)
        ELSE Yield(l, <<>>)

do_array(toks, p) ==
    IF peek(toks, p) # Tok("RightBracket")
    THEN ExpressionList(toks, p, "RightBracket", <<>>)
    ELSE Yield(p, <<>>)

\* The `loop` of do_object.
ObjectProperties(toks, p, acc) ==
    LET key == peek(toks, p)
        name == IF key.t = "StringLiteral" THEN key.s ELSE key.name
        e == expression(toks, expect(toks, consume(p), "Colon"))
    IN  IF ~p.ok THEN p
        ELSE IF key.t \notin {"StringLiteral", "Identifier"}
        THEN ParsePanic(consume(p))
        ELSE IF ~e.ok THEN e
        ELSE IF peek(toks, e) = Tok("RightBrace")
        THEN Yield(e, Append(acc, <<name, e.v>>))
        ELSE ObjectProperties(toks, expect(toks, e, "Comma"),
                              Append(acc, <<name, e.v>>))

do_object(toks, p) ==
    LET props == IF peek(toks, p) # Tok("RightBrace")
                 THEN ObjectProperties(toks, p, <<>>)
                 ELSE Yield(p, <<>>)
    IN  Yield(expect(toks, props, "RightBrace"), props.v)

\* Expression::FunctionCall { callee, args }, the arguments in parentheses.
ParseCall(toks, p, callee) ==
    LET a == do_args(toks, p)
    IN  Yield(expect(toks, a, "RightParen"), ExprFunctionCall(callee, a.v))

\* self.expression() followed by the token `close`.
Enclosed(toks, p, close) ==
    LET e == expression(toks, p)
    IN  Yield(expect(toks, e, close), e.v)

\* Expression::UnaryOp { op, expr: self.expression() }.
ParseUnary(toks, p, op) ==
    LET e == expression(toks, p)
    IN  Yield(e, ExprUnaryOp(op, e.v))

\* The prefix of an expression: the first match of Parser::expression, on
\* self.consume().
Prefix(toks, p) ==
    LET tok == peek(toks, p)
        q == consume(p)
    IN  CASE ~p.ok -> p
          [] tok.t = "Number" -> Yield(q, ExprLiteral(LitNumber(tok.n)))
          [] tok.t = "StringLiteral" -> Yield(q, ExprLiteral(LitString(tok.s)))
          [] tok.t = "Identifier" ->
                IF peek(toks, q) = Tok("LeftParen")
                THEN ParseCall(toks, q, ExprIdentifier(tok.name))
                ELSE Yield(look(q), ExprIdentifier(tok.name))
          [] tok.t = "True" -> Yield(q, ExprLiteral(LitBoolean(TRUE)))
          [] tok.t = "False" -> Yield(q, ExprLiteral(LitBoolean(FALSE)))
          [] tok.t = "Null" -> Yield(q, ExprLiteral(LitNull))
          [] tok.t = "Undefined" -> Yield(q, ExprLiteral(LitUndefined))
          [] tok.t = "LeftParen" -> Enclosed(toks, q, "RightParen")
          [] tok.t = "LeftBracket" ->
                LET a == do_array(toks, q)
                IN  Yield(expect(toks, a, "RightBracket"), ExprArray(a.v))
          [] tok.t = "LeftBrace" ->
                LET o == do_object(toks, q)
                IN  Yield(o, ExprObject(o.v))
          [] tok.t = "Minus" -> ParseUnary(toks, q, "Negate")
          [] tok.t = "Bang" -> ParseUnary(toks, q, "Not")
          [] OTHER -> ParsePanic(q)

\* Expression::Index { target, index }.
ParseIndex(toks, p, target) ==
    LET i == Enclosed(toks, p, "RightBracket")
    IN  Yield(i, ExprIndex(target, i.v))

\* Expression::Property { target, name }, name the identifier after the dot.
ParseProperty(toks, p, target) ==
    IF peek(toks, p).t = "Identifier"
    THEN Yield(consume(p), ExprProperty(target, peek(toks, p).name))
    ELSE ParsePanic(consume(p))

\* The `loop` over postfix operators; p.v is the expression parsed so far.
Postfix(toks, p) ==
    LET tok == peek(toks, p)
    IN  CASE ~p.ok -> p
          [] tok.t = "LeftBracket" ->
                Postfix(toks, ParseIndex(toks, consume(p), p.v))
          [] tok.t = "Dot" ->
                Postfix(toks, ParseProperty(toks, consume(p), p.v))
          [] tok.t = "LeftParen" -> Postfix(toks, ParseCall(toks, p, p.v))
          [] tok.t = "PlusPlus" ->
                Postfix(toks, Yield(consume(p), ExprIncrement(p.v)))
          [] tok.t = "MinusMinus" ->
                Postfix(toks, Yield(consume(p), ExprDecrement(p.v)))
          [] OTHER -> look(p)

\* A parser whose right operand is a single operand (prefix and postfixes)
\* and not a whole expression: its chains associate to the left.
ParseBinaryOperand(toks, p, left, op) ==
    LET rhs == Postfix(toks, Prefix(toks, p))
    IN  Yield(rhs, ExprBinaryOp(left, op, rhs.v))

\* Expression::BinaryOp { left, op, right: self.expression() }.
ParseBinary(toks, p, left, op) ==
    LET rhs == expression(toks, p)
    IN  Yield(rhs, ExprBinaryOp(left, op, rhs.v))

\* The `while let Some(op) = self.match_infix_operators()` loop; p.v is the
\* expression parsed so far.
Infix(toks, p) ==
    IF p.ok /\ peek(toks, p).t \in InfixTokens
    THEN Infix(toks, ParseBinary(toks, consume(p), p.v,
                                 InfixOperator(peek(toks, p).t)))
    ELSE look(p)

\* Expression::Assignment { target, value: self.expression() }.
ParseAssignment(toks, p, target) ==
    LET value == expression(toks, p)
    IN  Yield(value, ExprAssignment(target, value.v))

\* The tail of Parser::expression: an assignment, or an infix chain.
AssignmentOrInfix(toks, p) ==
    IF p.ok /\ peek(toks, p) = Tok("Equal")
    THEN ParseAssignment(toks, consume(p), p.v)
    ELSE Infix(toks, p)

\* Parser::expression: prefix, postfixes, then an assignment or infix chain.
expression(toks, p) == AssignmentOrInfix(toks, Postfix(toks, Prefix(toks, p)))

\* The else branch of do_if, after the consequence t.
IfAlternative(toks, t) ==
    IF peek(toks, t) = Tok("Else")
    THEN Some(statement(toks, consume(t)))
    ELSE Yield(look(t), <<>>)

\* The consequence and the alternative of do_if.
IfBranches(toks, p, condition) ==
    LET t == statement(toks, p)
        a == IfAlternative(toks, t)
    IN  Yield(a, StmtIf(condition, t.v, a.v))

do_if(toks, p) ==
    LET c == Enclosed(toks, expect(toks, consume(p), "LeftParen"), "RightParen")
    IN  IfBranches(toks, c, c.v)

\* The initializer of do_let.
LetValue(toks, p) ==
    IF peek(toks, p) = Tok("Semicolon")
    THEN Yield(p, ExprLiteral(LitUndefined))
    ELSE expression(toks, expect(toks, p, "Equal"))

\* The rest of do_let after the name.
LetRest(toks, p, name) ==
    LET value == LetValue(toks, p)
    IN  Yield(expect(toks, value, "Semicolon"), StmtLet(name, value.v))

do_let(toks, p) ==
    LET l == expect(toks, p, "Let")
    IN  IF ~l.ok THEN l
        ELSE IF peek(toks, l).t # "Identifier" THEN ParsePanic(consume(l))
        ELSE LetRest(toks, consume(l), peek(toks, l).name)

\* The body of do_while.
WhileBody(toks, p, condition) ==
    LET b == statement(toks, p)
    IN  Yield(b, StmtWhile(condition, b.v))

do_while(toks, p) ==
    LET c == Enclosed(toks, expect(toks, expect(toks, p, "While"),
                                   "LeftParen"), "RightParen")
    IN  WhileBody(toks, c, c.v)

\* The parts of the header of do_for; a part that is present is Some(node).
ForInit(toks, p) ==
    IF peek(toks, p) # Tok("Semicolon")
    THEN Some(statement(toks, p))
    ELSE Yield(expect(toks, p, "Semicolon"), <<>>)
ForOptional(toks, p) ==
    IF peek(toks, p) # Tok("Semicolon")
    THEN Some(expression(toks, p))
    ELSE Yield(p, <<>>)
ForBody(toks, p, init, condition, update) ==
    LET b == statement(toks, p)
    IN  Yield(b, StmtFor(init, condition, update, b.v))
ForUpdate(toks, p, init, condition) ==
    LET u == ForOptional(toks, p)
    IN  ForBody(toks, expect(toks, u, "RightParen"), init, condition, u.v)
ForCondition(toks, p, init) ==
    LET c == ForOptional(toks, p)
    IN  ForUpdate(toks, expect(toks, c, "Semicolon"), init, c.v)

do_for(toks, p) ==
    LET i == ForInit(toks, expect(toks, expect(toks, p, "For"), "LeftParen"))
    IN  ForCondition(toks, i, i.v)

\* The `loop` over the parameter names of do_function.
FunctionParams(toks, p, acc) ==
    LET arg == peek(toks, p)
        q == consume(p)
    IN  IF ~p.ok THEN p
        ELSE IF arg.t # "Identifier" THEN ParsePanic(q)
        ELSE IF peek(toks, q) = Tok("RightParen")
        THEN Yield(q, Append(acc, arg.name))
        ELSE FunctionParams(toks, expect(toks, q, "Comma"),
                            Append(acc, arg.name))

\* The parameter list of do_function.
FunctionArgs(toks, p) ==
    IF peek(toks, p) # Tok("RightParen")
    THEN FunctionParams(toks, p, <<>>)
    ELSE Yield(p, <<>>)

\* The body of do_function.
FunctionBody(toks, p, name, args) ==
    LET body == do_scope(toks, p)
    IN  Yield(body, StmtFunction(name, args, StmtScope(body.v)))

\* The rest of do_function after the name.
FunctionRest(toks, p, name) ==
    LET args == FunctionArgs(toks, expect(toks, p, "LeftParen"))
    IN  FunctionBody(toks, expect(toks, args, "RightParen"), name, args.v)

do_function(toks, p) ==
    LET f == expect(toks, p, "Function")
    IN  IF ~f.ok THEN f
        ELSE IF peek(toks, f).t # "Identifier" THEN ParsePanic(consume(f))
        ELSE FunctionRest(toks, consume(f), peek(toks, f).name)

\* The `while` of do_scope.
ScopeStatements(toks, p, acc) ==
    IF p.ok /\ peek(toks, p) # Tok("RightBrace") /\ ~done(toks, p)
    THEN LET s == statement(toks, p)
         IN  ScopeStatements(toks, s, Append(acc, s.v))
    ELSE Yield(look(p), acc)

do_scope(toks, p) ==
    LET body == ScopeStatements(toks, expect(toks, p, "LeftBrace"), <<>>)
    IN  Yield(expect(toks, body, "RightBrace"), body.v)

\* Statement::Return after the `return` token.
ParseReturn(toks, p) ==
    IF peek(toks, p) = Tok("Semicolon")
    \* the semicolon is peeked at, not consumed
    THEN Yield(p, StmtReturn(ExprLiteral(LitUndefined)))
    ELSE LET e == expression(toks, p)
         IN  Yield(expect(toks, e, "Semicolon"), StmtReturn(e.v))

\* Statement::Scope { statements: self.do_scope() }.
ParseScope(toks, p) ==
    LET b == do_scope(toks, p)
    IN  Yield(b, StmtScope(b.v))

\* Statement::Expression.
ParseExpressionStatement(toks, p) ==
    LET e == expression(toks, p)
    IN  Yield(expect(toks, e, "Semicolon"), StmtExpression(e.v))

\* Parser::statement.
statement(toks, p) ==
    LET tok == peek(toks, p)
    IN  CASE ~p.ok -> p
          [] tok.t = "Return" -> ParseReturn(toks, consume(p))
          [] tok.t = "If" -> do_if(toks, p)
          [] tok.t = "Let" -> do_let(toks, p)
          [] tok.t = "While" -> do_while(toks, p)
          [] tok.t = "For" -> do_for(toks, p)
          [] tok.t = "Function" -> do_function(toks, p)
          [] tok.t = "Break" ->
                Yield(expect(toks, consume(p), "Semicolon"), StmtBreak)
          [] tok.t = "Continue" ->
                Yield(expect(toks, consume(p), "Semicolon"), StmtContinue)
          [] tok.t = "LeftBrace" -> ParseScope(toks, p)
          [] OTHER -> ParseExpressionStatement(toks, p)

(***************************************************************************)
(* Programs: the source texts the pipeline is run on.                      *)
(***************************************************************************)
\* function fact(n) { if (n == 0) { return 1; } return n * fact(n - 1); }
\* console.log(fact(5));
FactProgram ==
    <<"f", "u", "n", "c", "t", "i", "o", "n", " ", "f", "a", "c", "t", "(",
      "n", ")", " ", "{", " ", "i", "f", " ", "(", "n", " ", "=", "=", " ",
      "0", ")", " ", "{", " ", "r", "e", "t", "u", "r", "n", " ", "1", ";",
      " ", "}", " ", "r", "e", "t", "u", "r", "n", " ", "n", " ", "*", " ",
      "f", "a", "c", "t", "(", "n", " ", "-", " ", "1", ")", ";", " ", "}",
      " ", "c", "o", "n", "s", "o", "l", "e", ".", "l", "o", "g", "(", "f",
      "a", "c", "t", "(", "5", ")", ")", ";">>

\* function f() { if (true) { return 1; } console.log("later"); return 2; }
\* console.log(f());
IfReturnProgram ==
    <<"f", "u", "n", "c", "t", "i", "o", "n", " ", "f", "(", ")", " ", "{",
      " ", "i", "f", " ", "(", "t", "r", "u", "e", ")", " ", "{", " ", "r",
      "e", "t", "u", "r", "n", " ", "1", ";", " ", "}", " ", "c", "o", "n",
      "s", "o", "l", "e", ".", "l", "o", "g", "(", "\"", "l", "a", "t", "e",
      "r", "\"", ")", ";", " ", "r", "e", "t", "u", "r", "n", " ", "2", ";",
      " ", "}", " ", "c", "o", "n", "s", "o", "l", "e", ".", "l", "o", "g",
      "(", "f", "(", ")", ")", ";">>

\* function g() { while (true) { console.log("body"); return 7; } }
\* console.log(g());
WhileReturnProgram ==
    <<"f", "u", "n", "c", "t", "i", "o", "n", " ", "g", "(", ")", " ", "{",
      " ", "w", "h", "i", "l", "e", " ", "(", "t", "r", "u", "e", ")", " ",
      "{", " ", "c", "o", "n", "s", "o", "l", "e", ".", "l", "o", "g", "(",
      "\"", "b", "o", "d", "y", "\"", ")", ";", " ", "r", "e", "t", "u", "r",
      "n", " ", "7", ";", " ", "}", " ", "}", " ", "c", "o", "n", "s", "o",
      "l", "e", ".", "l", "o", "g", "(", "g", "(", ")", ")", ";">>

\* function h() { for (let i = 0; i < 2; i = i + 1) { console.log("body");
\* return 7; } } console.log(h());
ForReturnProgram ==
    <<"f", "u", "n", "c", "t", "i", "o", "n", " ", "h", "(", ")", " ", "{",
      " ", "f", "o", "r", " ", "(", "l", "e", "t", " ", "i", " ", "=", " ",
      "0", ";", " ", "i", " ", "<", " ", "2", ";", " ", "i", " ", "=", " ",
      "i", " ", "+", " ", "1", ")", " ", "{", " ", "c", "o", "n", "s", "o",
      "l", "e", ".", "l", "o", "g", "(", "\"", "b", "o", "d", "y", "\"", ")",
      ";", " ", "r", "e", "t", "u", "r", "n", " ", "7", ";", " ", "}", " ",
      "}", " ", "c", "o", "n", "s", "o", "l", "e", ".", "l", "o", "g", "(",
      "h", "(", ")", ")", ";">>

\* function s() { { return 5; } console.log("later"); } console.log(s());
ScopeReturnProgram ==
    <<"f", "u", "n", "c", "t", "i", "o", "n", " ", "s", "(", ")", " ", "{",
      " ", "{", " ", "r", "e", "t", "u", "r", "n", " ", "5", ";", " ", "}",
      " ", "c", "o", "n", "s", "o", "l", "e", ".", "l", "o", "g", "(", "\"",
      "l", "a", "t", "e", "r", "\"", ")", ";", " ", "}", " ", "c", "o", "n",
      "s", "o", "l", "e", ".", "l", "o", "g", "(", "s", "(", ")", ")", ";">>

\* let i = 0; while (i < 3) { console.log(i); i = i + 1; }
CounterProgram ==
    <<"l", "e", "t", " ", "i", " ", "=", " ", "0", ";", " ", "w", "h", "i",
      "l", "e", " ", "(", "i", " ", "<", " ", "3", ")", " ", "{", " ", "c",
      "o", "n", "s", "o", "l", "e", ".", "l", "o", "g", "(", "i", ")", ";",
      " ", "i", " ", "=", " ", "i", " ", "+", " ", "1", ";", " ", "}">>

\* let a = [1,2]; let b = a; b.push(3); let n = a.length; let e = a[2]; b[0]
\* = 9; let w = a[0]; let c = a.length();
AliasProgram ==
    <<"l", "e", "t", " ", "a", " ", "=", " ", "[", "1", ",", "2", "]", ";",
      " ", "l", "e", "t", " ", "b", " ", "=", " ", "a", ";", " ", "b", ".",
      "p", "u", "s", "h", "(", "3", ")", ";", " ", "l", "e", "t", " ", "n",
      " ", "=", " ", "a", ".", "l", "e", "n", "g", "t", "h", ";", " ", "l",
      "e", "t", " ", "e", " ", "=", " ", "a", "[", "2", "]", ";", " ", "b",
      "[", "0", "]", " ", "=", " ", "9", ";", " ", "l", "e", "t", " ", "w",
      " ", "=", " ", "a", "[", "0", "]", ";", " ", "l", "e", "t", " ", "c",
      " ", "=", " ", "a", ".", "l", "e", "n", "g", "t", "h", "(", ")", ";">>

\* let x = 1 + 2 * 3; console.log(x);
FoldProgram ==
    <<"l", "e", "t", " ", "x", " ", "=", " ", "1", " ", "+", " ", "2", " ",
      "*", " ", "3", ";", " ", "c", "o", "n", "s", "o", "l", "e", ".", "l",
      "o", "g", "(", "x", ")", ";">>

\* let x = 10; let y = x + 5; console.log(y);
PropagateProgram ==
    <<"l", "e", "t", " ", "x", " ", "=", " ", "1", "0", ";", " ", "l", "e",
      "t", " ", "y", " ", "=", " ", "x", " ", "+", " ", "5", ";", " ", "c",
      "o", "n", "s", "o", "l", "e", ".", "l", "o", "g", "(", "y", ")", ";">>

\* console.log("abc);
UnterminatedProgram ==
    <<"c", "o", "n", "s", "o", "l", "e", ".", "l", "o", "g", "(", "\"", "a",
      "b", "c", ")", ";">>

\* for (;;) { }
ForeverProgram ==
    <<"f", "o", "r", " ", "(", ";", ";", ")", " ", "{", " ", "}">>

\* console.log(9 - 4 - 2);
SubProgram ==
    <<"c", "o", "n", "s", "o", "l", "e", ".", "l", "o", "g", "(", "9", " ",
      "-", " ", "4", " ", "-", " ", "2", ")", ";">>

\* let a = [1, 2, 3]; a.push(4); console.log(a.length);
\* console.log(a.join(","));
ArrayProgram ==
    <<"l", "e", "t", " ", "a", " ", "=", " ", "[", "1", ",", " ", "2", ",",
      " ", "3", "]", ";", " ", "a", ".", "p", "u", "s", "h", "(", "4", ")",
      ";", " ", "c", "o", "n", "s", "o", "l", "e", ".", "l", "o", "g", "(",
      "a", ".", "l", "e", "n", "g", "t", "h", ")", ";", " ", "c", "o", "n",
      "s", "o", "l", "e", ".", "l", "o", "g", "(", "a", ".", "j", "o", "i",
      "n", "(", "\"", ",", "\"", ")", ")", ";">>

\* let o = { name: "x" }; o.name = "y"; console.log(o.name);
ObjectProgram ==
    <<"l", "e", "t", " ", "o", " ", "=", " ", "{", " ", "n", "a", "m", "e",
      ":", " ", "\"", "x", "\"", " ", "}", ";", " ", "o", ".", "n", "a", "m",
      "e", " ", "=", " ", "\"", "y", "\"", ";", " ", "c", "o", "n", "s", "o",
      "l", "e", ".", "l", "o", "g", "(", "o", ".", "n", "a", "m", "e", ")",
      ";">>

\* let o = { a: 1, b: 2, c: 3 }; o.b = 7; o.d = 8; console.log(o.b);
\* console.log(o.d); console.log(o.a); console.log(o.c);
PropertiesProgram ==
    <<"l", "e", "t", " ", "o", " ", "=", " ", "{", " ", "a", ":", " ", "1",
      ",", " ", "b", ":", " ", "2", ",", " ", "c", ":", " ", "3", " ", "}",
      ";", " ", "o", ".", "b", " ", "=", " ", "7", ";", " ", "o", ".", "d",
      " ", "=", " ", "8", ";", " ", "c", "o", "n", "s", "o", "l", "e", ".",
      "l", "o", "g", "(", "o", ".", "b", ")", ";", " ", "c", "o", "n", "s",
      "o", "l", "e", ".", "l", "o", "g", "(", "o", ".", "d", ")", ";", " ",
      "c", "o", "n", "s", "o", "l", "e", ".", "l", "o", "g", "(", "o", ".",
      "a", ")", ";", " ", "c", "o", "n", "s", "o", "l", "e", ".", "l", "o",
      "g", "(", "o", ".", "c", ")", ";">>

\* function f(a) { console.log("body"); } f(console.log("arg"), 2);
ArityProgram ==
    <<"f", "u", "n", "c", "t", "i", "o", "n", " ", "f", "(", "a", ")", " ",
      "{", " ", "c", "o", "n", "s", "o", "l", "e", ".", "l", "o", "g", "(",
      "\"", "b", "o", "d", "y", "\"", ")", ";", " ", "}", " ", "f", "(", "c",
      "o", "n", "s", "o", "l", "e", ".", "l", "o", "g", "(", "\"", "a", "r",
      "g", "\"", ")", ",", " ", "2", ")", ";">>

\* function g(a, b) { console.log("body"); } g(console.log("arg"));
TooFewProgram ==
    <<"f", "u", "n", "c", "t", "i", "o", "n", " ", "g", "(", "a", ",", " ",
      "b", ")", " ", "{", " ", "c", "o", "n", "s", "o", "l", "e", ".", "l",
      "o", "g", "(", "\"", "b", "o", "d", "y", "\"", ")", ";", " ", "}", " ",
      "g", "(", "c", "o", "n", "s", "o", "l", "e", ".", "l", "o", "g", "(",
      "\"", "a", "r", "g", "\"", ")", ")", ";">>

\* let a = [7, 8]; console.log(a[-1]);
NegativeIndexProgram ==
    <<"l", "e", "t", " ", "a", " ", "=", " ", "[", "7", ",", " ", "8", "]",
      ";", " ", "c", "o", "n", "s", "o", "l", "e", ".", "l", "o", "g", "(",
      "a", "[", "-", "1", "]", ")", ";">>

\* let a = [7, 8]; console.log(a[2]);
OutOfBoundsProgram ==
    <<"l", "e", "t", " ", "a", " ", "=", " ", "[", "7", ",", " ", "8", "]",
      ";", " ", "c", "o", "n", "s", "o", "l", "e", ".", "l", "o", "g", "(",
      "a", "[", "2", "]", ")", ";">>

\* function f() { return; } console.log(f());
BareReturnProgram ==
    <<"f", "u", "n", "c", "t", "i", "o", "n", " ", "f", "(", ")", " ", "{",
      " ", "r", "e", "t", "u", "r", "n", ";", " ", "}", " ", "c", "o", "n",
      "s", "o", "l", "e", ".", "l", "o", "g", "(", "f", "(", ")", ")", ";">>

\* return; console.log(1);
ReturnThenProgram ==
    <<"r", "e", "t", "u", "r", "n", ";", " ", "c", "o", "n", "s", "o", "l",
      "e", ".", "l", "o", "g", "(", "1", ")", ";">>

\* for (let i = 0; i < 1;) { }
ForNoUpdateProgram ==
    <<"f", "o", "r", " ", "(", "l", "e", "t", " ", "i", " ", "=", " ", "0",
      ";", " ", "i", " ", "<", " ", "1", ";", ")", " ", "{", " ", "}">>

\* for (; c; u) { }
ForNoInitProgram ==
    <<"f", "o", "r", " ", "(", ";", " ", "c", ";", " ", "u", ")", " ", "{",
      " ", "}">>

\* var x = 1;
VarProgram ==
    <<"v", "a", "r", " ", "x", " ", "=", " ", "1", ";">>

\* var x;
VarBareProgram ==
    <<"v", "a", "r", " ", "x", ";">>

\* let x = 1; { x = 2; console.log(x); } console.log(x);
ShadowProgram ==
    <<"l", "e", "t", " ", "x", " ", "=", " ", "1", ";", " ", "{", " ", "x",
      " ", "=", " ", "2", ";", " ", "c", "o", "n", "s", "o", "l", "e", ".",
      "l", "o", "g", "(", "x", ")", ";", " ", "}", " ", "c", "o", "n", "s",
      "o", "l", "e", ".", "l", "o", "g", "(", "x", ")", ";">>

\* let x = 1; let a = [1]; let o = { p: 1 }; console.log(x = 5);
\* console.log(o.q = 5); console.log(a[0] = 5); console.log(o.p = 5);
AssignValueProgram ==
    <<"l", "e", "t", " ", "x", " ", "=", " ", "1", ";", " ", "l", "e", "t",
      " ", "a", " ", "=", " ", "[", "1", "]", ";", " ", "l", "e", "t", " ",
      "o", " ", "=", " ", "{", " ", "p", ":", " ", "1", " ", "}", ";", " ",
      "c", "o", "n", "s", "o", "l", "e", ".", "l", "o", "g", "(", "x", " ",
      "=", " ", "5", ")", ";", " ", "c", "o", "n", "s", "o", "l", "e", ".",
      "l", "o", "g", "(", "o", ".", "q", " ", "=", " ", "5", ")", ";", " ",
      "c", "o", "n", "s", "o", "l", "e", ".", "l", "o", "g", "(", "a", "[",
      "0", "]", " ", "=", " ", "5", ")", ";", " ", "c", "o", "n", "s", "o",
      "l", "e", ".", "l", "o", "g", "(", "o", ".", "p", " ", "=", " ", "5",
      ")", ";">>

\* let o = { k: 1 }; let p = o; p.k = 2; console.log(o.k); console.log(p.k);
ValueObjectProgram ==
    <<"l", "e", "t", " ", "o", " ", "=", " ", "{", " ", "k", ":", " ", "1",
      " ", "}", ";", " ", "l", "e", "t", " ", "p", " ", "=", " ", "o", ";",
      " ", "p", ".", "k", " ", "=", " ", "2", ";", " ", "c", "o", "n", "s",
      "o", "l", "e", ".", "l", "o", "g", "(", "o", ".", "k", ")", ";", " ",
      "c", "o", "n", "s", "o", "l", "e", ".", "l", "o", "g", "(", "p", ".",
      "k", ")", ";">>

\* let x = 1; let y = x + 1; x = 5; console.log(y);
AssignedProgram ==
    <<"l", "e", "t", " ", "x", " ", "=", " ", "1", ";", " ", "l", "e", "t",
      " ", "y", " ", "=", " ", "x", " ", "+", " ", "1", ";", " ", "x", " ",
      "=", " ", "5", ";", " ", "c", "o", "n", "s", "o", "l", "e", ".", "l",
      "o", "g", "(", "y", ")", ";">>

\* let x = 0; { let y = x; x = 3; } console.log(x);
BlockAssignedProgram ==
    <<"l", "e", "t", " ", "x", " ", "=", " ", "0", ";", " ", "{", " ", "l",
      "e", "t", " ", "y", " ", "=", " ", "x", ";", " ", "x", " ", "=", " ",
      "3", ";", " ", "}", " ", "c", "o", "n", "s", "o", "l", "e", ".", "l",
      "o", "g", "(", "x", ")", ";">>

\* let a = [1, 2]; let b = a; console.log(a.pop()); console.log(b.length());
PopProgram ==
    <<"l", "e", "t", " ", "a", " ", "=", " ", "[", "1", ",", " ", "2", "]",
      ";", " ", "l", "e", "t", " ", "b", " ", "=", " ", "a", ";", " ", "c",
      "o", "n", "s", "o", "l", "e", ".", "l", "o", "g", "(", "a", ".", "p",
      "o", "p", "(", ")", ")", ";", " ", "c", "o", "n", "s", "o", "l", "e",
      ".", "l", "o", "g", "(", "b", ".", "l", "e", "n", "g", "t", "h", "(",
      ")", ")", ";">>

\* let a = 1; function f(a, b) { return b; } console.log(f(2, a));
ParamProgram ==
    <<"l", "e", "t", " ", "a", " ", "=", " ", "1", ";", " ", "f", "u", "n",
      "c", "t", "i", "o", "n", " ", "f", "(", "a", ",", " ", "b", ")", " ",
      "{", " ", "r", "e", "t", "u", "r", "n", " ", "b", ";", " ", "}", " ",
      "c", "o", "n", "s", "o", "l", "e", ".", "l", "o", "g", "(", "f", "(",
      "2", ",", " ", "a", ")", ")", ";">>

\* -a + b;
NegateProgram ==
    <<"-", "a", " ", "+", " ", "b", ";">>

\* !a == b;
NotProgram ==
    <<"!", "a", " ", "=", "=", " ", "b", ";">>

\* The decimal digit d as a character.
DigitChar(d) == CHOOSE c \in Digits : DigitValue(c) = d

\* for (let i = 0; i < n; i = i + 1) { console.log(i); }
ForProgramHead ==
    <<"f", "o", "r", " ", "(", "l", "e", "t", " ", "i", " ", "=", " ", "0",
      ";", " ", "i", " ", "<", " ">>
ForProgramTail ==
    <<";", " ", "i", " ", "=", " ", "i", " ", "+", " ", "1", ")", " ", "{",
      " ", "c", "o", "n", "s", "o", "l", "e", ".", "l", "o", "g", "(", "i",
      ")", ";", " ", "}">>
ForProgram(n) == ForProgramHead \o <<DigitChar(n)>> \o ForProgramTail

\* if (c) { console.log("then"); } else { console.log("else"); }
IfProgramHead ==
    <<"i", "f", " ", "(">>
IfProgramTail ==
    <<")", " ", "{", " ", "c", "o", "n", "s", "o", "l", "e", ".", "l", "o",
      "g", "(", "\"", "t", "h", "e", "n", "\"", ")", ";", " ", "}", " ", "e",
      "l", "s", "e", " ", "{", " ", "c", "o", "n", "s", "o", "l", "e", ".",
      "l", "o", "g", "(", "\"", "e", "l", "s", "e", "\"", ")", ";", " ", "}">>
IfProgram(c) == IfProgramHead \o c \o IfProgramTail
\* The conditions 0, "", null, undefined, [] and {}.
FalseyConditions ==
    {<<"0">>, <<"\"", "\"">>, <<"n", "u", "l", "l">>,
     <<"u", "n", "d", "e", "f", "i", "n", "e", "d">>, <<"[", "]">>,
     <<"{", "}">>}

\* let x = 4; console.log(a op1 b op2 c);
ExprProgramHead ==
    <<"l", "e", "t", " ", "x", " ", "=", " ", "4", ";", " ", "c", "o", "n",
      "s", "o", "l", "e", ".", "l", "o", "g", "(">>
ExprProgramTail ==
    <<")", ";">>
ExprProgram(a, op1, b, op2, c) ==
    ExprProgramHead \o a \o <<" ">> \o op1 \o <<" ">> \o b \o <<" ">> \o op2
    \o <<" ">> \o c \o ExprProgramTail
ExprOperands == {<<"2">>, <<"3">>, <<"x">>, <<"\"", "s", "\"">>}
\* The first operand may carry a prefix operator.
ExprFirstOperands == ExprOperands \cup {<<"-", "2">>, <<"!", "x">>}
ExprOperators == {<<"+">>, <<"-">>, <<"*">>, <<"<">>, <<"=", "=">>}

\* Largest n of the family ForProgram(n).
MaxForCount == 3

Sources ==
    {FactProgram, IfReturnProgram, WhileReturnProgram, ForReturnProgram,
     ScopeReturnProgram, CounterProgram, AliasProgram, FoldProgram,
     PropagateProgram, UnterminatedProgram, ForeverProgram, SubProgram,
     ArrayProgram, ObjectProgram, PropertiesProgram, ArityProgram,
     TooFewProgram, NegativeIndexProgram, OutOfBoundsProgram,
     BareReturnProgram, ReturnThenProgram, ForNoUpdateProgram,
     ForNoInitProgram, VarProgram, VarBareProgram, ShadowProgram,
     AssignValueProgram, ValueObjectProgram, AssignedProgram,
     BlockAssignedProgram, PopProgram, ParamProgram, NegateProgram,
     NotProgram}
    \cup {ForProgram(n) : n \in 0..MaxForCount}
    \cup {IfProgram(c) : c \in FalseyConditions}

ExprSources ==
    {ExprProgram(a, op1, b, op2, c) :
        a \in ExprFirstOperands, op1 \in ExprOperators, b \in ExprOperands,
        op2 \in ExprOperators, c \in ExprOperands}

(***************************************************************************)
(* The pipeline of main.rs: lex, parse, optimize, run.                     *)
(***************************************************************************)
\* Lexer::new, before Lexer::lex.
StartOn(source) ==
    /\ src = source
    /\ lexer = [pos |-> 0, tokens |-> <<>>]
    /\ parser = [pos |-> 0, statements |-> <<>>]
    /\ ast = <<>>
    /\ phase = "lex"
    /\ nopt = 0
    /\ m = NoInterpreter
    /\ mref = NoInterpreter

Init == \E source \in Sources : StartOn(source)

\* One iteration of the `while let Some(c) = self.peek()` of Lexer::lex.
LexStep ==
    /\ phase = "lex"
    /\ lexer.pos < Len(src)
    /\ LET r == LexChar(src, lexer.pos)
       IN  IF r.ok
           THEN /\ lexer' = [pos |-> r.pos, tokens |-> lexer.tokens \o r.tok]
                /\ phase' = phase
           ELSE /\ lexer' = [lexer EXCEPT !.pos = r.pos]
                /\ phase' = "panic"
    /\ UNCHANGED <<src, parser, ast, nopt, m, mref>>

\* The end of Lexer::lex: EOF is pushed; Parser::new(tokens).
LexEnd ==
    /\ phase = "lex"
    /\ lexer.pos >= Len(src)
    /\ lexer' = [lexer EXCEPT !.tokens = Append(@, Tok("EOF"))]
    /\ phase' = "parse"
    /\ UNCHANGED <<src, parser, ast, nopt, m, mref>>

\* One iteration of the `while !self.done()` of Parser::parse.
ParseStatement ==
    /\ phase = "parse"
    /\ ~done(lexer.tokens, NewParser(parser.pos))
    /\ LET r == statement(lexer.tokens, NewParser(parser.pos))
       IN  IF r.ok
           THEN /\ parser' = [pos |-> r.pos,
                              statements |-> Append(parser.statements, r.v)]
                /\ phase' = phase
           ELSE /\ parser' = [parser EXCEPT !.pos = r.pos]
                /\ phase' = "panic"
    /\ UNCHANGED <<src, lexer, ast, nopt, m, mref>>

\* The end of Parser::parse: AST { statements }.
ParseEnd ==
    /\ phase = "parse"
    /\ done(lexer.tokens, NewParser(parser.pos))
    /\ ast' = parser.statements
    /\ phase' = "ast"
    /\ UNCHANGED <<src, lexer, parser, nopt, m, mref>>

\* Optimizer::new(ast).optimize().
Optimize ==
    /\ phase = "ast"
    /\ nopt < MaxOptRuns
    /\ ast' = optimize(ast)
    /\ nopt' = nopt + 1
    /\ UNCHANGED <<src, lexer, parser, phase, m, mref>>

\* Interpreter::new(ast) and the start of Interpreter::run.
Run ==
    /\ phase = "ast"
    /\ m' = NewInterpreter(ast)
    /\ phase' = "run"
    /\ UNCHANGED <<src, lexer, parser, ast, nopt, mref>>

\* The interpreter is at frame kinds `kinds` of its call stack.
At(mm, kinds) == mm.status = "running" /\ Head(mm.k).k \in kinds

\* run's loop takes the next top-level statement, or ends.
RunStatement ==
    /\ phase = "run" /\ At(m, {"Run"})
    /\ m' = RunLoop(m, Head(m.k), Tail(m.k))
    /\ UNCHANGED <<src, lexer, parser, ast, phase, nopt, mref>>

\* do_statement is entered.
EnterStatement ==
    /\ phase = "run" /\ At(m, {"stmt"})
    /\ m' = DoStatement(m, Head(m.k).s, Tail(m.k))
    /\ UNCHANGED <<src, lexer, parser, ast, phase, nopt, mref>>

\* do_statement goes on after a sub-evaluation has returned.
ContinueStatement ==
    /\ phase = "run" /\ At(m, StatementFrames)
    /\ m' = ResumeStatement(m, Head(m.k), Tail(m.k))
    /\ UNCHANGED <<src, lexer, parser, ast, phase, nopt, mref>>

\* do_expression is entered.
EnterExpression ==
    /\ phase = "run" /\ At(m, {"expr"})
    /\ m' = DoExpression(m, Head(m.k).e, Tail(m.k))
    /\ UNCHANGED <<src, lexer, parser, ast, phase, nopt, mref>>

\* do_expression goes on after a sub-evaluation has returned.
ContinueExpression ==
    /\ phase = "run" /\ At(m, ExpressionFrames)
    /\ m' = ResumeExpression(m, Head(m.k), Tail(m.k))
    /\ UNCHANGED <<src, lexer, parser, ast, phase, nopt, mref>>

Next ==
    \/ LexStep
    \/ LexEnd
    \/ ParseStatement
    \/ ParseEnd
    \/ Optimize
    \/ Run
    \/ RunStatement
    \/ EnterStatement
    \/ ContinueStatement
    \/ EnterExpression
    \/ ContinueExpression

Spec == Init /\ [][Next]_vars

\* Interpreter::new(ast).run() is sequential code: once the AST is there it
\* is run, and the run takes step after step until it returns or aborts.
InterpreterStep ==
    \/ Run
    \/ RunStatement
    \/ EnterStatement
    \/ ContinueStatement
    \/ EnterExpression
    \/ ContinueExpression

FairSpec == Spec /\ WF_vars(InterpreterStep)

(***************************************************************************)
(* The optimized and the unoptimized AST of one program, evaluated side by *)
(* side: m runs optimize(ast), mref runs ast.                              *)
(***************************************************************************)
InitEquiv == \E source \in Sources \cup ExprSources : StartOn(source)

\* Optimizer::new(ast).optimize() and Interpreter::new on either AST.
RunBoth ==
    /\ phase = "ast"
    /\ m' = NewInterpreter(optimize(ast))
    /\ mref' = NewInterpreter(ast)
    /\ nopt' = nopt + 1
    /\ phase' = "run"
    /\ UNCHANGED <<src, lexer, parser, ast>>

\* Either interpreter, while it is running, takes its next step.
StepBoth ==
    /\ phase = "run"
    /\ "running" \in {m.status, mref.status}
    /\ m' = IF m.status = "running" THEN Step(m) ELSE m
    /\ mref' = IF mref.status = "running" THEN Step(mref) ELSE mref
    /\ UNCHANGED <<src, lexer, parser, ast, phase, nopt>>

NextEquiv ==
    \/ LexStep
    \/ LexEnd
    \/ ParseStatement
    \/ ParseEnd
    \/ RunBoth
    \/ StepBoth

SpecEquiv == InitEquiv /\ [][NextEquiv]_vars

(***************************************************************************)
(* Lexer::lex alone, on every source text of up to MaxSourceLen characters *)
(* of LexAlphabet, on the two-character operators and on the programs.     *)
(***************************************************************************)
\* Longest source text of LexSources.
MaxSourceLen == 3
\* A letter, a digit, the quote, blank and newline, the slash, two operator
\* characters, a punctuation mark and a character lex has no arm for.
LexAlphabet == {"a", "1", "\"", " ", "\n", "/", "=", "+", ";", "%"}

RECURSIVE TextsUpTo(_)
TextsUpTo(n) ==
    IF n = 0 THEN {<<>>}
    ELSE LET shorter == TextsUpTo(n - 1)
         IN  shorter \cup {Append(t, c) : t \in shorter, c \in LexAlphabet}
LexSources == TextsUpTo(MaxSourceLen)

\* The two-character operators: the source text and the token's name.
TwoCharOperators ==
    {<<<<"=", "=">>, "EqualEqual">>, <<<<"!", "=">>, "BangEqual">>,
     <<<<"<", "=">>, "LessEqual">>, <<<<">", "=">>, "GreaterEqual">>,
     <<<<"+", "=">>, "PlusEqual">>, <<<<"-", "=">>, "MinusEqual">>,
     <<<<"*", "=">>, "StarEqual">>, <<<<"/", "=">>, "SlashEqual">>,
     <<<<"%", "=">>, "PercentEqual">>, <<<<"&", "&">>, "AmpAmp">>,
     <<<<"|", "|">>, "PipePipe">>, <<<<"+", "+">>, "PlusPlus">>,
     <<<<"-", "-">>, "MinusMinus">>}

InitLex ==
    \E source \in LexSources \cup {o[1] : o \in TwoCharOperators} \cup Sources :
        StartOn(source)

NextLex ==
    \/ LexStep
    \/ LexEnd

\* Lexer::lex is a sequential loop: it takes its next iteration, or ends.
SpecLex == InitLex /\ [][NextLex]_vars /\ WF_vars(NextLex)

(***************************************************************************)
(* Chains of infix operators.  Parser::new takes any Vec<Token>: the       *)
(* parser is also started on the token vector of `a op1 b op2 c;` for      *)
(* every pair of tokens match_infix_operators knows, among them the ones   *)
(* Lexer::lex never yields.                                                *)
(***************************************************************************)
\* Parser::new(toks), the tokens given directly.
StartOnTokens(toks) ==
    /\ src = <<>>
    /\ lexer = [pos |-> 0, tokens |-> toks]
    /\ parser = [pos |-> 0, statements |-> <<>>]
    /\ ast = <<>>
    /\ phase = "parse"
    /\ nopt = 0
    /\ m = NoInterpreter
    /\ mref = NoInterpreter

\* The operands of a chain, by position.
ChainFirst == {TokNumber(9), TokIdentifier("a")}
ChainSecond == {TokNumber(4), TokIdentifier("b")}
ChainThird == {TokNumber(2), TokIdentifier("c")}
\* a op1 b op2 c ;
ChainTokens(a, op1, b, op2, c) ==
    <<a, Tok(op1), b, Tok(op2), c, Tok("Semicolon"), Tok("EOF")>>

InitChain ==
    \/ \E source \in {FoldProgram, SubProgram} : StartOn(source)
    \/ \E a \in ChainFirst, b \in ChainSecond, c \in ChainThird,
          op1 \in InfixTokens, op2 \in InfixTokens :
            StartOnTokens(ChainTokens(a, op1, b, op2, c))

SpecChain == InitChain /\ [][Next]_vars

\* Token lists with && and ||, which the lexer does not produce.
LogicTokenKinds == {"AmpAmp", "PipePipe"}
LogicOperands == {TokNumber(0), TokNumber(1), TokStringLiteral("s")}
ConsoleLogOpen ==
    <<TokIdentifier("console"), Tok("Dot"), TokIdentifier("log"),
      Tok("LeftParen")>>
ConsoleLogClose == <<Tok("RightParen"), Tok("Semicolon")>>
\* let x = 7; console.log(l op x = r); console.log(x);
AssignRightTokens(l, op, r) ==
    <<Tok("Let"), TokIdentifier("x"), Tok("Equal"), TokNumber(7),
      Tok("Semicolon")>>
    \o ConsoleLogOpen \o <<l, Tok(op), TokIdentifier("x"), Tok("Equal"), r>>
    \o ConsoleLogClose
    \o ConsoleLogOpen \o <<TokIdentifier("x")>> \o ConsoleLogClose
    \o <<Tok("EOF")>>
\* console.log(console.log("l") op console.log("r"));
LogBothTokens(op) ==
    ConsoleLogOpen
    \o ConsoleLogOpen \o <<TokStringLiteral("l"), Tok("RightParen")>>
    \o <<Tok(op)>>
    \o ConsoleLogOpen \o <<TokStringLiteral("r"), Tok("RightParen")>>
    \o ConsoleLogClose \o <<Tok("EOF")>>
InitLogic ==
    \/ StartOn(ShadowProgram)
    \/ \E op \in LogicTokenKinds : StartOnTokens(LogBothTokens(op))
    \/ \E op \in LogicTokenKinds, l \in LogicOperands, r \in LogicOperands :
            StartOnTokens(AssignRightTokens(l, op, r))

SpecLogic == InitLogic /\ [][Next]_vars

\* Longest token list (before the end-of-stream token) of TokensUpTo.
MaxTokens == 3
\* Token lists for the parser alone.  The tokens of
\*   function f(a, b) { if (a < b) { return a; } else { return [a, 1][0]; } }
\*   let o = { k: 1, "s": f(1, 2) };
\*   for (let i = 0; i < 3; i = i + 1) { o.k = -i; }
\*   while (!o.k) { break; }
\*   console.log(o.k);
SampleTokens ==
    <<Tok("Function"), TokIdentifier("f"), Tok("LeftParen"),
      TokIdentifier("a"), Tok("Comma"), TokIdentifier("b"),
      Tok("RightParen"), Tok("LeftBrace"), Tok("If"), Tok("LeftParen"),
      TokIdentifier("a"), Tok("Less"), TokIdentifier("b"),
      Tok("RightParen"), Tok("LeftBrace"), Tok("Return"),
      TokIdentifier("a"), Tok("Semicolon"), Tok("RightBrace"), Tok("Else"),
      Tok("LeftBrace"), Tok("Return"), Tok("LeftBracket"),
      TokIdentifier("a"), Tok("Comma"), TokNumber(1), Tok("RightBracket"),
      Tok("LeftBracket"), TokNumber(0), Tok("RightBracket"),
      Tok("Semicolon"), Tok("RightBrace"), Tok("RightBrace"), Tok("Let"),
      TokIdentifier("o"), Tok("Equal"), Tok("LeftBrace"),
      TokIdentifier("k"), Tok("Colon"), TokNumber(1), Tok("Comma"),
      TokStringLiteral("s"), Tok("Colon"), TokIdentifier("f"),
      Tok("LeftParen"), TokNumber(1), Tok("Comma"), TokNumber(2),
      Tok("RightParen"), Tok("RightBrace"), Tok("Semicolon"), Tok("For"),
      Tok("LeftParen"), Tok("Let"), TokIdentifier("i"), Tok("Equal"),
      TokNumber(0), Tok("Semicolon"), TokIdentifier("i"), Tok("Less"),
      TokNumber(3), Tok("Semicolon"), TokIdentifier("i"), Tok("Equal"),
      TokIdentifier("i"), Tok("Plus"), TokNumber(1), Tok("RightParen"),
      Tok("LeftBrace"), TokIdentifier("o"), Tok("Dot"), TokIdentifier("k"),
      Tok("Equal"), Tok("Minus"), TokIdentifier("i"), Tok("Semicolon"),
      Tok("RightBrace"), Tok("While"), Tok("LeftParen"), Tok("Bang"),
      TokIdentifier("o"), Tok("Dot"), TokIdentifier("k"), Tok("RightParen"),
      Tok("LeftBrace"), Tok("Break"), Tok("Semicolon"), Tok("RightBrace"),
      TokIdentifier("console"), Tok("Dot"), TokIdentifier("log"),
      Tok("LeftParen"), TokIdentifier("o"), Tok("Dot"), TokIdentifier("k"),
      Tok("RightParen"), Tok("Semicolon")>>
\* The sample cut off after n tokens, and the sample without its i-th token.
Truncated(toks, n) == SubSeq(toks, 1, n)
Without(toks, i) == SubSeq(toks, 1, i - 1) \o SubSeq(toks, i + 1, Len(toks))
ParseAlphabet ==
    {TokIdentifier("a"), TokNumber(1), Tok("LeftBrace"), Tok("RightBrace"),
     Tok("LeftParen"), Tok("RightParen"), Tok("Semicolon"), Tok("Let"),
     Tok("Equal"), Tok("Return"), Tok("Plus"), Tok("EOF")}
RECURSIVE TokensUpTo(_)
TokensUpTo(n) ==
    IF n = 0 THEN {<<>>}
    ELSE LET shorter == TokensUpTo(n - 1)
         IN  shorter \cup {Append(t, c) : t \in shorter, c \in ParseAlphabet}
\* Every list ends with the end-of-stream token.
ParseInputs ==
    {Append(t, Tok("EOF")) :
        t \in TokensUpTo(MaxTokens)
               \cup {Truncated(SampleTokens, n) : n \in 0..Len(SampleTokens)}
               \cup {Without(SampleTokens, i) : i \in 1..Len(SampleTokens)}}

InitParse == \E toks \in ParseInputs : StartOnTokens(toks)

NextParse ==
    \/ ParseStatement
    \/ ParseEnd

\* Parser::parse is a sequential loop: it takes its next iteration, or ends.
\* This is WF_vars(NextParse) with ENABLED <<NextParse>>_vars written out:
\* an iteration or the end of the loop is possible exactly while
\* phase = "parse".
ParseLoopRuns == []<>(phase # "parse") \/ []<><<NextParse>>_vars
SpecParse == InitParse /\ [][NextParse]_vars /\ ParseLoopRuns

(***************************************************************************)
(* Properties.                                                             *)
(***************************************************************************)
\* s is a prefix of t.
IsPrefix(s, t) == Len(s) <= Len(t) /\ SubSeq(t, 1, Len(s)) = s
\* The pipeline has stopped: a panic of the lexer or the parser, or the
\* interpreter has left its running state.
Halted == phase = "panic" \/ (phase = "run" /\ m.status # "running")
\* Interpreter::run has returned.
Finished == phase = "run" /\ m.status = "done"

\* C1: a `return` executed in the taken branch of an `if` ends the function
\* call with that value and no later statement of the body runs:
\* IfReturnProgram prints 1 and never "later", and FactProgram ends having
\* printed fact(5) = 120.
C1_ReturnInIfEndsCall ==
    /\ (src = IfReturnProgram /\ phase = "run") => IsPrefix(m.out, <<"1">>)
    /\ (src = FactProgram /\ Halted) => (Finished /\ m.out = <<"120">>)

\* C2: a Return signal produced by the body of a `while` or a `for` stops
\* the loop and makes the enclosing call return the value: the loop body of
\* WhileReturnProgram and of ForReturnProgram runs once, then 7 is printed.
C2_ReturnInLoopEndsCall ==
    (src \in {WhileReturnProgram, ForReturnProgram} /\ phase = "run")
        => IsPrefix(m.out, <<"body", "7">>)

\* C3: CounterProgram prints 0, 1, 2 in that order and then ends: the
\* assignment to i inside the block body is seen by the loop condition.
C3_CounterLoopCounts ==
    (src = CounterProgram /\ phase = "run")
        => /\ IsPrefix(m.out, <<"0", "1", "2">>)
           /\ m.status # "running" => (Finished /\ m.out = <<"0", "1", "2">>)

\* What ForProgram(n) prints: 0, 1, .., n - 1.
ForOutput(n) == [j \in 1..n |-> ToString(j - 1)]
\* ForProgram(n) is lexed and parsed without a panic; while it runs, i is
\* bound in the frame of the for header only (the second frame), is written
\* there by the update, and counts the lines printed so far.
ForHeaderFrame ==
    \A n \in 0..MaxForCount :
        src = ForProgram(n) =>
            /\ phase # "panic"
            /\ phase = "run" =>
                  /\ m.status \in {"running", "done"}
                  /\ IsPrefix(m.out, ForOutput(n))
                  /\ \A j \in 1..Len(m.scopes) :
                        "i" \in DOMAIN m.scopes[j] =>
                            /\ j = 2
                            /\ m.scopes[j]["i"].n
                                  \in {Len(m.out) - 1, Len(m.out)}

\* ForProgram(n) has been parsed.
ForParsed(n) == src = ForProgram(n) /\ phase = "ast"
\* ForProgram(n) has been run to its end and has printed 0, .., n - 1.
ForEnded(n) == src = ForProgram(n) /\ Finished /\ m.out = ForOutput(n)

\* C4: a `for` runs init once, then cond, body, update in that order until
\* cond is falsey, the header variable living in the frame the update
\* writes to: ForProgram(n), once parsed, ends after printing 0, .., n - 1
\* in order.
C4_ForRunsInOrder ==
    /\ []ForHeaderFrame
    /\ (\E n \in 0..MaxForCount : ForParsed(n))
          ~> (\E n \in 0..MaxForCount : ForEnded(n))
C4_Witness ==
    Finished /\ src = ForProgram(2) /\ m.out = <<"0", "1">> /\ Len(m.scopes) = 1

\* The frames of the call stack that hold a pending self.scope.exit().
ExitFrames == {"ForInit", "ForTest", "ForBody", "ForUpdate", "ScopeNext",
               "CallBind", "CallReturn"}
PendingExits(k) == Cardinality({j \in 1..Len(k) : k[j].k \in ExitFrames})

\* C5: evaluating a statement that completes without a fatal error leaves
\* the scope stack as deep as it found it.  Stated on the machine: the
\* frames on the scope stack above the global one are exactly those whose
\* exit is still pending on the call stack; so when the continuation of a
\* statement is reached again the depth is what it was when the statement
\* began, and run ends with the global frame alone.
C5_ScopeDepthPreserved ==
    (phase = "run" /\ m.status \in {"running", "done"})
        => Len(m.scopes) = 1 + PendingExits(m.k)
C5_Witness ==
    /\ Finished /\ src = ScopeReturnProgram
    /\ m.out = <<"5">> /\ Len(m.scopes) = 1

\* C6: evaluating the optimizer's output prints what evaluating the
\* unoptimized AST prints, and ends the same way (done, or the same abort).
C6_OptimizedRunsAlike ==
    phase = "run" =>
        /\ IsPrefix(m.out, mref.out) \/ IsPrefix(mref.out, m.out)
        /\ (m.status # "running" /\ mref.status # "running")
              => (m.out = mref.out /\ m.status = mref.status)
C6_Witness ==
    /\ phase = "run" /\ m.status = "done" /\ mref.status = "done"
    /\ optimize(ast) # ast
    /\ m.out = mref.out /\ m.out # <<>>

\* C7: the optimizer is idempotent: optimizing an AST that has been
\* optimized leaves it as it is.
C7_OptimizeIdempotent ==
    (phase = "ast" /\ nopt >= 1) => optimize(ast) = ast

\* C8: constant propagation followed by folding rewrites the use of a
\* let-bound literal: the second statement of the optimized
\* PropagateProgram is Let y = Literal(15).
C8_PropagatedAndFolded ==
    (src = PropagateProgram /\ phase = "ast" /\ nopt >= 1)
        => ast[2] = StmtLet("y", ExprLiteral(LitNumber(15)))

\* C9: arrays are aliased by reference: after AliasProgram, a.length (n) is
\* the number 3, a[2] (e) is 3 and a[0] (w), written through b, is 9.
C9_ArraysAliased ==
    (src = AliasProgram /\ Finished)
        => /\ ScopeGet(m.scopes, "n") = LitNumber(3)
           /\ ScopeGet(m.scopes, "e") = LitNumber(3)
           /\ ScopeGet(m.scopes, "w") = LitNumber(9)

\* C10: each of if (0), if (""), if (null), if (undefined), if ([]) and
\* if ({}) with an else branch runs the else branch and not the then branch,
\* without aborting.
C10_FalseyTakesElse ==
    \A c \in FalseyConditions :
        (src = IfProgram(c) /\ Halted) => (Finished /\ m.out = <<"else">>)

\* The expression an operand token is parsed to.
OperandOf(tok) ==
    IF tok.t = "Number" THEN ExprLiteral(LitNumber(tok.n))
    ELSE ExprIdentifier(tok.name)

\* C11: every chain of infix operators parses right-associatively with no
\* precedence: the tokens of `a op1 b op2 c;` parse, without a panic, to
\* BinaryOp(a, op1, BinaryOp(b, op2, c)) for every op1, op2 of
\* match_infix_operators; so `1 + 2 * 3` (FoldProgram) evaluates to 7 and
\* `9 - 4 - 2` (SubProgram) to 9 - (4 - 2) = 7.
C11_InfixRightAssociative ==
    /\ src = <<>> => phase # "panic"
    /\ (src = <<>> /\ phase = "ast" /\ nopt = 0) =>
          LET toks == lexer.tokens
          IN  ast = <<StmtExpression(
                        ExprBinaryOp(OperandOf(toks[1]),
                                     InfixOperator(toks[2].t),
                                     ExprBinaryOp(OperandOf(toks[3]),
                                                  InfixOperator(toks[4].t),
                                                  OperandOf(toks[5]))))>>
    /\ (src \in {FoldProgram, SubProgram} /\ Halted)
          => (Finished /\ m.out = <<"7">>)
C11_Witness ==
    /\ phase = "ast" /\ nopt = 0
    /\ lexer.tokens = ChainTokens(TokNumber(9), "Minus", TokIdentifier("b"),
                                  "Percent", TokNumber(2))
    /\ ast = <<StmtExpression(
                ExprBinaryOp(ExprLiteral(LitNumber(9)), "Sub",
                             ExprBinaryOp(ExprIdentifier("b"), "Mod",
                                          ExprLiteral(LitNumber(2)))))>>

\* C12: ArrayProgram ends without an abort having printed 4 and then
\* 1,2,3,4: a.length is the element count and join stringifies numbers.
C12_ArrayLengthAndJoin ==
    src = ArrayProgram =>
        /\ phase # "panic"
        /\ phase = "run" =>
              /\ IsPrefix(m.out, <<"4", "1,2,3,4">>)
              /\ m.status # "running"
                    => (Finished /\ m.out = <<"4", "1,2,3,4">>)

\* What reading the property `name` of an object with properties `props`
\* yields: the value of the first property of that name.
Lookup(props, name) ==
    IF \E i \in 1..Len(props) : props[i][1] = name
    THEN props[CHOOSE i \in 1..Len(props) :
                   /\ props[i][1] = name
                   /\ \A h \in 1..(i - 1) : props[h][1] # name][2]
    ELSE LitUndefined
\* The number of properties called `name`.
Occurrences(props, name) ==
    Cardinality({i \in 1..Len(props) : props[i][1] = name})

\* The step that performs obj_name.name = value leaves obj_name bound to an
\* object that has the value under name, every other property where it was,
\* and the key once more only if it was absent.
PropertyAssigned ==
    (phase = "run" /\ At(m, {"AssignProperty"}) /\ m'.status = "running"
     /\ m'.k # m.k) =>
        LET f == Head(m.k)
            old == ScopeGet(m.scopes, f.obj_name).props
            new == ScopeGet(m'.scopes, f.obj_name)
        IN  /\ new.t = "Object"
            /\ Lookup(new.props, f.name) = m.val
            /\ Occurrences(new.props, f.name)
                  = IF Occurrences(old, f.name) = 0 THEN 1
                    ELSE Occurrences(old, f.name)
            /\ Len(new.props)
                  = IF Occurrences(old, f.name) = 0 THEN Len(old) + 1
                    ELSE Len(old)
            /\ \A i \in 1..Len(old) :
                  old[i][1] # f.name => new.props[i] = old[i]

\* C13: after o.p = v on an identifier bound to an object, reading o.p
\* yields v, every other property keeps its value and its position, and an
\* existing key is replaced in place: ObjectProgram prints y, and
\* PropertiesProgram (o.b replaced, o.d appended) prints 7, 8, 1, 3.
C13_PropertyAssignment ==
    /\ []((src = ObjectProgram /\ Halted) => (Finished /\ m.out = <<"y">>))
    /\ []((src = PropertiesProgram /\ Halted)
            => (Finished /\ m.out = <<"7", "8", "1", "3">>))
    /\ [][PropertyAssigned]_vars
C13_Witness ==
    /\ Finished /\ src = PropertiesProgram
    /\ m.out = <<"7", "8", "1", "3">>
    /\ ScopeGet(m.scopes, "o")
          = LitObject(<< <<"a", LitNumber(1)>>, <<"b", LitNumber(7)>>,
                         <<"c", LitNumber(3)>>, <<"d", LitNumber(8)>> >>)

\* The token list ends with EOF and holds no other EOF.
EndsInEOF(toks) ==
    /\ Len(toks) >= 1
    /\ toks[Len(toks)] = Tok("EOF")
    /\ \A i \in 1..(Len(toks) - 1) : toks[i] # Tok("EOF")

\* C14: on every source text Lexer::lex ends, with a fatal error or with
\* its token list; and the list it returns ends with the end-of-stream
\* token and contains no other one.
C14_LexEndsInEOF ==
    /\ [](phase = "parse" => EndsInEOF(lexer.tokens))
    /\ (phase = "lex") ~> (phase \in {"parse", "panic"})
C14_Witness ==
    /\ phase = "parse" /\ src = <<"a", "/", "1">>
    /\ lexer.tokens = <<TokIdentifier("a"), Tok("Slash"), TokNumber(1),
                        Tok("EOF")>>

\* C17: lexing the two characters of a two-character operator yields one
\* token, the operator's, followed by end-of-stream.
C17_TwoCharOperators ==
    \A o \in TwoCharOperators :
        src = o[1] =>
            /\ phase # "panic"
            /\ phase = "parse" => lexer.tokens = <<Tok(o[2]), Tok("EOF")>>

\* The step that calls a user function with the wrong number of arguments
\* is the panic, and it leaves scopes, heap and output as they were.
ArityChecked ==
    (/\ phase = "run" /\ At(m, {"CallCallee"})
     /\ m.val.t = "Function"
     /\ Len(m.val.args) # Len(Head(m.k).args)
     /\ m' # m) =>
        /\ m'.status = "panic"
        /\ m'.scopes = m.scopes
        /\ m'.heap = m.heap
        /\ m'.out = m.out

\* C15: calling a user function with a number of arguments different from
\* its number of parameters is a fatal error raised before a scope frame is
\* pushed, an argument is evaluated or a body statement runs: ArityProgram
\* (two arguments for one parameter) and TooFewProgram (one for two) abort
\* having printed neither "arg" nor "body", the scope stack one frame deep.
C15_ArityCheckedFirst ==
    /\ [](src \in {ArityProgram, TooFewProgram} =>
            /\ phase # "panic"
            /\ phase = "run" =>
                  /\ m.out = <<>>
                  /\ Len(m.scopes) = 1
                  /\ m.status \in {"running", "panic"})
    /\ [][ArityChecked]_vars
C15_Witness ==
    /\ src = ArityProgram /\ phase = "run" /\ m.status = "panic"
    /\ m.err = "Expected 1 arguments, got 2"
    /\ m.out = <<>> /\ Len(m.scopes) = 1

\* C16: reading a[i] aborts whenever i is not a non-negative integer
\* smaller than the length of a: NegativeIndexProgram (a[-1]) and
\* OutOfBoundsProgram (a[2], a of length 2) abort and print nothing.
C16_IndexOutOfRangeAborts ==
    (src \in {NegativeIndexProgram, OutOfBoundsProgram} /\ phase = "run")
        => /\ m.out = <<>>
           /\ m.status \in {"running", "panic"}

\* The parser's output, before any run of the optimizer.
Parsed == phase = "ast" /\ nopt = 0

\* C18: `return;` parses to Return(Literal Undefined) and its semicolon is
\* consumed: BareReturnProgram and ReturnThenProgram parse without a fatal
\* error, the body of f being the one statement Return(Undefined) and the
\* statement after the top-level `return;` being the call of console.log.
C18_BareReturnParses ==
    /\ src \in {BareReturnProgram, ReturnThenProgram} => phase # "panic"
    /\ (src = BareReturnProgram /\ Parsed) =>
          ast[1] = StmtFunction("f", <<>>,
                       StmtScope(<<StmtReturn(ExprLiteral(LitUndefined))>>))
    /\ (src = ReturnThenProgram /\ Parsed) =>
          /\ Len(ast) = 2
          /\ ast[1] = StmtReturn(ExprLiteral(LitUndefined))
          /\ ast[2].s = "Expression"

\* C19: each part of a `for` header may be left out: `for (;;) { }`,
\* `for (let i = 0; i < 1;) { }` and `for (; c; u) { }` parse without a
\* fatal error to a For whose omitted parts are absent.
C19_ForPartsOptional ==
    /\ src \in {ForeverProgram, ForNoUpdateProgram, ForNoInitProgram}
          => phase # "panic"
    /\ (src = ForeverProgram /\ Parsed) =>
          ast = <<StmtFor(<<>>, <<>>, <<>>, StmtScope(<<>>))>>
    /\ (src = ForNoUpdateProgram /\ Parsed) =>
          ast = <<StmtFor(<<StmtLet("i", ExprLiteral(LitNumber(0)))>>,
                          <<ExprBinaryOp(ExprIdentifier("i"), "LessThan",
                                         ExprLiteral(LitNumber(1)))>>,
                          <<>>, StmtScope(<<>>))>>
    /\ (src = ForNoInitProgram /\ Parsed) =>
          ast = <<StmtFor(<<>>, <<ExprIdentifier("c")>>,
                          <<ExprIdentifier("u")>>, StmtScope(<<>>))>>

\* C20: a declaration introduced by `var` parses like one introduced by
\* `let`: `var x = 1;` to Let{x, 1} and `var x;` to Let{x, Undefined}.
C20_VarParsesAsLet ==
    /\ src \in {VarProgram, VarBareProgram} => phase # "panic"
    /\ (src = VarProgram /\ Parsed) =>
          ast = <<StmtLet("x", ExprLiteral(LitNumber(1)))>>
    /\ (src = VarBareProgram /\ Parsed) =>
          ast = <<StmtLet("x", ExprLiteral(LitUndefined))>>

\* Names and values the scope operations are applied to.
ScopeNames == {"x", "o", "unbound"}
ScopeValues == {LitNumber(2), LitString("v")}
\* set writes the innermost frame only, get reads the innermost frame that
\* has the name, and enter(); set(x, v); exit() leaves get(x) as it was.
SetGetOn(scopes) ==
    \A name \in ScopeNames, v \in ScopeValues :
        LET after == ScopeSet(scopes, name, v)
            inner == ScopeExit(ScopeSet(ScopeEnter(scopes), name, v))
        IN  /\ Len(after) = Len(scopes)
            /\ \A i \in 1..(Len(scopes) - 1) : after[i] = scopes[i]
            /\ \A other \in DOMAIN scopes[Len(scopes)] \ {name} :
                   after[Len(scopes)][other] = scopes[Len(scopes)][other]
            /\ ScopeHas(after, name) /\ ScopeGet(after, name) = v
            /\ ScopeHas(inner, name) = ScopeHas(scopes, name)
            /\ ScopeHas(scopes, name)
                  => ScopeGet(inner, name) = ScopeGet(scopes, name)
\* A step of the interpreter leaves every frame below the innermost one of
\* the shallower of its two scope stacks unchanged.
OuterFramesKept ==
    (phase = "run" /\ phase' = "run")
        => \A i \in 1..(Len(m.scopes) - 1) :
               i < Len(m'.scopes) => m'.scopes[i] = m.scopes[i]

\* C21: Scope.set changes only the innermost frame, get returns the binding
\* of the innermost frame that has the name, and after enter(); set(x, v);
\* exit() get(x) returns what it returned before: no step of a run changes a
\* frame below the innermost, and ShadowProgram (x = 2 in an inner block)
\* prints 2 inside the block and 1 after it.
C21_SetWritesInnermost ==
    /\ []((phase = "run" /\ Len(m.scopes) >= 1) => SetGetOn(m.scopes))
    /\ [][OuterFramesKept]_vars
    /\ []((src = ShadowProgram /\ Halted)
            => (Finished /\ m.out = <<"2", "1">>))
C21_Witness ==
    /\ src = ShadowProgram /\ phase = "run" /\ m.status = "running"
    /\ Len(m.scopes) = 2
    /\ "x" \in DOMAIN m.scopes[2] /\ m.scopes[2]["x"] = LitNumber(2)
    /\ m.scopes[1]["x"] = LitNumber(1)
    /\ ScopeGet(ScopeExit(m.scopes), "x") = LitNumber(1)

\* C22: an assignment expression evaluates to the assigned value for every
\* target shape: in AssignValueProgram x = 5, o.q = 5 (appended), a[0] = 5
\* and o.p = 5 (existing) each print 5.
C22_AssignmentReturnsValue ==
    (src = AssignValueProgram /\ Finished) => m.out = <<"5", "5", "5", "5">>

\* The step that performs obj_name.name = value changes the binding of
\* obj_name in the innermost frame and nothing else: every other binding of
\* every frame, the depth and the arrays are as before.
PropertyAssignedInPlace ==
    (phase = "run" /\ At(m, {"AssignProperty"}) /\ m'.status = "running"
     /\ m'.k # m.k) =>
        LET f == Head(m.k)
            depth == Len(m.scopes)
        IN  /\ Len(m'.scopes) = depth
            /\ m'.heap = m.heap
            /\ \A i \in 1..depth :
                  \A name \in DOMAIN m.scopes[i] :
                      (i # depth \/ name # f.obj_name)
                          => /\ name \in DOMAIN m'.scopes[i]
                             /\ m'.scopes[i][name] = m.scopes[i][name]

\* C23: objects have value semantics: after `let p = o;` the assignment
\* p.k = v changes only the binding p, and o.k reads as before.
\* ValueObjectProgram prints o.k = 1 and p.k = 2 after p.k = 2.
C23_ObjectsAreValues ==
    /\ []((src = ValueObjectProgram /\ Halted)
            => (Finished /\ m.out = <<"1", "2">>))
    /\ [][PropertyAssignedInPlace]_vars
C23_Witness ==
    /\ src = ValueObjectProgram /\ phase = "run" /\ m.status = "running"
    /\ ScopeHas(m.scopes, "o") /\ ScopeHas(m.scopes, "p")
    /\ ScopeGet(m.scopes, "o") = LitObject(<< <<"k", LitNumber(1)>> >>)
    /\ ScopeGet(m.scopes, "p") = LitObject(<< <<"k", LitNumber(2)>> >>)

\* C24: constant folding is bottom-up: one run of the folding pass reduces
\* a tree of number literals and + - * / % to a single Number literal.  The
\* value of FoldProgram's let, Add(1, Mul(2, 3)), folds to the literal 7.
C24_FoldsBottomUp ==
    (/\ src = FoldProgram /\ Parsed
     /\ ast[1] = StmtLet("x",
                    ExprBinaryOp(ExprLiteral(LitNumber(1)), "Add",
                        ExprBinaryOp(ExprLiteral(LitNumber(2)), "Mul",
                                     ExprLiteral(LitNumber(3))))))
        => constant_folding(ast)[1] = StmtLet("x", ExprLiteral(LitNumber(7)))

\* The number of occurrences of Identifier(name) in an expression, in a
\* list of expressions, in an object's properties and in statements.
RECURSIVE UsesIn(_, _), UsesInAll(_, _), UsesInProperties(_, _)
UsesIn(expr, name) ==
    CASE expr.e = "Identifier" -> IF expr.name = name THEN 1 ELSE 0
      [] expr.e = "Object" -> UsesInProperties(expr.properties, name)
      [] expr.e = "Array" -> UsesInAll(expr.elements, name)
      [] expr.e = "BinaryOp" -> UsesIn(expr.left, name) + UsesIn(expr.right, name)
      [] expr.e = "UnaryOp" -> UsesIn(expr.expr, name)
      [] expr.e = "FunctionCall" ->
            UsesIn(expr.callee, name) + UsesInAll(expr.args, name)
      [] expr.e = "Assignment" ->
            UsesIn(expr.target, name) + UsesIn(expr.value, name)
      [] expr.e = "Index" -> UsesIn(expr.target, name) + UsesIn(expr.index, name)
      [] expr.e \in {"Property", "Increment", "Decrement"} ->
            UsesIn(expr.target, name)
      [] OTHER -> 0
UsesInAll(exprs, name) ==
    IF Len(exprs) = 0 THEN 0
    ELSE UsesIn(Head(exprs), name) + UsesInAll(Tail(exprs), name)
UsesInProperties(props, name) ==
    IF Len(props) = 0 THEN 0
    ELSE UsesIn(Head(props)[2], name) + UsesInProperties(Tail(props), name)
RECURSIVE UsesInStatement(_, _), UsesInStatements(_, _)
UsesInStatement(stmt, name) ==
    CASE stmt.s = "Expression" -> UsesIn(stmt.expr, name)
      [] stmt.s = "Return" -> UsesIn(stmt.expr, name)
      [] stmt.s = "If" ->
            UsesIn(stmt.condition, name)
            + UsesInStatement(stmt.consequence, name)
            + UsesInStatements(stmt.alternative, name)
      [] stmt.s = "While" ->
            UsesIn(stmt.condition, name) + UsesInStatement(stmt.body, name)
      [] stmt.s = "For" ->
            UsesInStatements(stmt.init, name) + UsesInAll(stmt.condition, name)
            + UsesInAll(stmt.update, name) + UsesInStatement(stmt.body, name)
      [] stmt.s = "Function" -> UsesInStatement(stmt.body, name)
      [] stmt.s = "Scope" -> UsesInStatements(stmt.statements, name)
      [] stmt.s = "Let" -> UsesIn(stmt.value, name)
      [] OTHER -> 0
UsesInStatements(stmts, name) ==
    IF Len(stmts) = 0 THEN 0
    ELSE UsesInStatement(Head(stmts), name)
         + UsesInStatements(Tail(stmts), name)

\* The identifiers that are the target of a plain assignment.
RECURSIVE AssignedIn(_)
AssignedIn(expr) ==
    LET All(exprs) == UNION {AssignedIn(exprs[i]) : i \in 1..Len(exprs)}
    IN  CASE expr.e = "Object" ->
                UNION {AssignedIn(expr.properties[i][2]) :
                           i \in 1..Len(expr.properties)}
          [] expr.e = "Array" -> All(expr.elements)
          [] expr.e = "BinaryOp" -> AssignedIn(expr.left) \cup AssignedIn(expr.right)
          [] expr.e = "UnaryOp" -> AssignedIn(expr.expr)
          [] expr.e = "FunctionCall" ->
                AssignedIn(expr.callee) \cup All(expr.args)
          [] expr.e = "Assignment" ->
                (IF expr.target.e = "Identifier" THEN {expr.target.name}
                 ELSE AssignedIn(expr.target)) \cup AssignedIn(expr.value)
          [] expr.e = "Index" -> AssignedIn(expr.target) \cup AssignedIn(expr.index)
          [] expr.e \in {"Property", "Increment", "Decrement"} ->
                AssignedIn(expr.target)
          [] OTHER -> {}
RECURSIVE AssignedInStatement(_)
AssignedInStatement(stmt) ==
    LET Exprs(exprs) == UNION {AssignedIn(exprs[i]) : i \in 1..Len(exprs)}
        Stmts(stmts) ==
            UNION {AssignedInStatement(stmts[i]) : i \in 1..Len(stmts)}
    IN  CASE stmt.s = "Expression" -> AssignedIn(stmt.expr)
          [] stmt.s = "Return" -> AssignedIn(stmt.expr)
          [] stmt.s = "If" ->
                AssignedIn(stmt.condition)
                \cup AssignedInStatement(stmt.consequence)
                \cup Stmts(stmt.alternative)
          [] stmt.s = "While" ->
                AssignedIn(stmt.condition) \cup AssignedInStatement(stmt.body)
          [] stmt.s = "For" ->
                Stmts(stmt.init) \cup Exprs(stmt.condition)
                \cup Exprs(stmt.update) \cup AssignedInStatement(stmt.body)
          [] stmt.s = "Function" -> AssignedInStatement(stmt.body)
          [] stmt.s = "Scope" -> Stmts(stmt.statements)
          [] stmt.s = "Let" -> AssignedIn(stmt.value)
          [] OTHER -> {}
AssignedNames(stmts) ==
    UNION {AssignedInStatement(stmts[i]) : i \in 1..Len(stmts)}

\* C25: the optimizer's output replaces by a literal no occurrence of an
\* identifier that is the target of a plain assignment anywhere in the
\* program: every such identifier occurs in the optimized AST as often as
\* in the parsed one.
C25_AssignedNotPropagated ==
    (phase = "ast" /\ nopt >= 1)
        => \A name \in AssignedNames(parser.statements) :
               UsesInStatements(ast, name)
                   = UsesInStatements(parser.statements, name)
C25_Witness ==
    /\ src = AssignedProgram /\ phase = "ast" /\ nopt >= 1
    /\ "x" \in AssignedNames(parser.statements)
    /\ parser.statements[1] = StmtLet("x", ExprLiteral(LitNumber(1)))
    /\ UsesInStatements(ast, "x") = 2
    /\ ast[2] = StmtLet("y", ExprBinaryOp(ExprIdentifier("x"), "Add",
                                          ExprLiteral(LitNumber(1))))

\* The truthiness of a literal token and the text console.log prints for it.
TokenTruthy(t) == IF t.t = "Number" THEN t.n # 0 ELSE t.s # ""
TokenShown(t) ==
    CASE t = TokNumber(0) -> "0" [] t = TokNumber(1) -> "1" [] OTHER -> t.s
LogicResult(l, op, r) ==
    IF op = "AmpAmp" THEN TokenTruthy(l) /\ TokenTruthy(r)
    ELSE TokenTruthy(l) \/ TokenTruthy(r)
\* The step that has the left operand of a BinaryOp goes on to evaluate the
\* right operand.
RightOperandEvaluated ==
    (phase = "run" /\ At(m, {"BinaryRight"}) /\ m'.k # m.k)
        => /\ m'.status = "running"
           /\ Head(m'.k) = Eval(Head(m.k).right)

\* C26: for && and || the left and then the right operand are both always
\* evaluated, and the result is the conjunction or disjunction of their
\* truthiness: `console.log(l op x = r); console.log(x);` prints the Boolean
\* and then r, whatever l is, and
\* `console.log(console.log("l") op console.log("r"));` prints l, r, false.
C26_BothOperandsEvaluated ==
    /\ [](\A op \in LogicTokenKinds :
            (lexer.tokens = LogBothTokens(op) /\ Halted)
                => (Finished /\ m.out = <<"l", "r", "false">>))
    /\ [](\A op \in LogicTokenKinds, l \in LogicOperands, r \in LogicOperands :
            (lexer.tokens = AssignRightTokens(l, op, r) /\ Halted)
                => /\ Finished
                   /\ m.out = <<IF LogicResult(l, op, r) THEN "true"
                                ELSE "false",
                                TokenShown(r)>>)
    /\ [][RightOperandEvaluated]_vars
C26_Witness ==
    /\ lexer.tokens = AssignRightTokens(TokNumber(0), "AmpAmp", TokNumber(1))
    /\ Finished
    /\ m.out = <<"false", "1">>
    /\ ScopeGet(m.scopes, "x") = LitNumber(1)

\* C27: pop() with no arguments on a non-empty array removes and returns
\* the last element, and every alias sees the array one shorter: PopProgram
\* (a = [1, 2], b = a) prints a.pop() = 2 and then b.length() = 1.
C27_PopReturnsLast ==
    (src = PopProgram /\ Halted) => (Finished /\ m.out = <<"2", "1">>)

\* C28: every argument of a user function call is evaluated against the
\* caller's bindings: in ParamProgram (let a = 1; f(a, b) returns b) the
\* call f(2, a) returns 1.
C28_ArgumentsSeeCaller ==
    (src = ParamProgram /\ Halted) => (Finished /\ m.out = <<"1">>)

\* C29: a prefix - or ! applies to the operand that follows it and not to
\* a following infix chain: `-a + b` parses to BinaryOp(Negate(a), Add, b)
\* and `!a == b` to BinaryOp(Not(a), Equal, b).
C29_PrefixBindsOperand ==
    /\ (src = NegateProgram /\ Parsed)
          => ast = <<StmtExpression(
                       ExprBinaryOp(ExprUnaryOp("Negate", ExprIdentifier("a")),
                                    "Add", ExprIdentifier("b")))>>
    /\ (src = NotProgram /\ Parsed)
          => ast = <<StmtExpression(
                       ExprBinaryOp(ExprUnaryOp("Not", ExprIdentifier("a")),
                                    "Equal", ExprIdentifier("b")))>>

\* The reads of the next iteration of Parser::parse stay inside the token
\* list: done() reads self.tokens[self.pos], and the call of statement()
\* that follows reads no index >= tokens.len().
ReadsInBounds ==
    /\ parser.pos < Len(lexer.tokens)
    /\ ~done(lexer.tokens, NewParser(parser.pos))
         => statement(lexer.tokens, NewParser(parser.pos)).far
               <= Len(lexer.tokens)
\* A call of statement() that returns has consumed at least one token.
StatementConsumes ==
    (phase = "parse" /\ phase' = "parse")
        => /\ parser'.pos > parser.pos
           /\ Len(parser'.statements) = Len(parser.statements) + 1

\* C30: on every token list that ends with end-of-stream Parser::parse
\* terminates, with an AST or with a fatal parse error; each call of
\* statement() consumes at least one token; and no token is read at a
\* position past the end of the list.
C30_ParseTerminatesInBounds ==
    /\ <>(phase \in {"ast", "panic"})
    /\ [][StatementConsumes]_vars
    /\ [](phase = "parse" => ReadsInBounds)
    /\ [](phase = "ast" => (ast = parser.statements /\ done(lexer.tokens,
                                                          NewParser(parser.pos))))
C30_Witness ==
    /\ phase = "panic"
    /\ lexer.tokens = <<Tok("Let"), TokIdentifier("a"), Tok("Equal"), Tok("EOF")>>
    /\ parser.pos = Len(lexer.tokens)

====
